---- MODULE Spec2Model ----
(***************************************************************************)
(* State-machine model of MultibodyPlant                                   *)
(* (multibody/multibody_tree/multibody_plant/multibody_plant.cc):          *)
(* the plant lifecycle (construction, source registration, geometry        *)
(* registration, Finalize), the geometry registry, the calls the plant     *)
(* makes on a SceneGraph, and the port accessors.                          *)
(*                                                                         *)
(* Conventions: a BodyIndex b is an integer, the world is 0, and a         *)
(* per-body std::vector is a sequence read at b + 1.  A SceneGraph pointer *)
(* is an integer, nullptr is Null.  An optional<> without a value and an   *)
(* invalid TypeSafeIndex are Invalid.                                      *)
(***************************************************************************)
EXTENDS Integers, Sequences, FiniteSets, TLC

\* ------------------------------------------------------------------ bounds
\* Each specification explores the plant up to its own bounds.
LcMaxBodies == 2       \* SpecLifecycle: bodies in the tree, the world included
LcMaxGeometries == 2   \* SpecLifecycle: geometries registered
RegMaxBodies == 2      \* Spec: bodies in the tree, the world included
RegMaxGeometries == 2  \* Spec: geometries registered
FltMaxBodies == 3      \* SpecFilters: bodies in the tree, the world included
FltMaxJoints == 1      \* SpecFilters: joints
FltMaxGeometries == 2  \* SpecFilters: geometries registered

Null == 0
Invalid == 0 - 1
Engines == {1, 2}     \* two distinct SceneGraph instances a caller can pass
EngineArgs == {Null} \cup Engines
Frictions == {1, 2}   \* two distinct CoulombFriction values

world_index == 0

VARIABLES
  \* MultibodyTree (model_)
  topology_is_valid,        \* model_->topology_is_valid()
  num_model_instances,      \* model_->num_model_instances()
  body_instance,            \* model instance of each body, read at b + 1
  joints,                   \* sequence of <<parent body, child body>>
  actuators,                \* sequence of joint numbers (1-based), one per actuator
  \* MultibodyPlant members
  time_step_,
  source_id_,
  scene_graph_,
  geometry_id_to_body_index_,
  geometry_id_to_visual_index_,
  geometry_id_to_collision_index_,
  visual_geometries_,
  collision_geometries_,
  default_coulomb_friction_,
  body_index_to_frame_id_,
  penalty_method_contact_parameters_,
  stribeck_model_,
  implicit_stribeck_solver_,
  pc_, vc_,                 \* the kinematics caches made by DeclareCacheEntries
  contact_results_,         \* the ContactResults staging buffer
  ports,                    \* the port-index members set by DeclareStateAndPorts
  \* systems::LeafSystem base: what has been declared on the system
  sys,
  \* the SceneGraph instances: everything the plant has called on them
  sg_sources, sg_frames, sg_geometries, sg_within, sg_between, sg_calls,
  \* the caller: the last call and its outcome, and the ids it was handed
  last,
  issued,
  \* a calculation on its own: the arguments given to one of the plant's
  \* numerical routines and the value it returned
  calc

treeVars == <<topology_is_valid, num_model_instances, body_instance, joints, actuators>>
registryVars == <<geometry_id_to_body_index_, geometry_id_to_visual_index_,
                  geometry_id_to_collision_index_, visual_geometries_,
                  collision_geometries_, default_coulomb_friction_,
                  body_index_to_frame_id_>>
sourceVars == <<source_id_, scene_graph_>>
contactVars == <<penalty_method_contact_parameters_, stribeck_model_,
                 implicit_stribeck_solver_>>
declVars == <<ports, sys, pc_, vc_>>
sgVars == <<sg_sources, sg_frames, sg_geometries, sg_within, sg_between, sg_calls>>
vars == <<treeVars, time_step_, calc, contact_results_, sourceVars, registryVars,
          contactVars, declVars,
          sgVars, last, issued>>

\* ------------------------------------------------------- small utilities
EmptyMap == [x \in {} |-> 0]

RECURSIVE SumOver(_, _)
SumOver(f, S) ==
  IF S = {} THEN 0
  ELSE LET x == CHOOSE y \in S : TRUE IN f[x] + SumOver(f, S \ {x})

SeqToSet(s) == {s[i] : i \in 1 .. Len(s)}

\* An exception: its kind and the function it names (__func__ in the message).
Err(kind, method) == [kind |-> kind, method |-> method]
Ok == Err("ok", "")

\* A call's outcome as the caller sees it: the operation called, the exception
\* it threw (or ok), the value returned.
Outcome(op, e, ret, set) ==
  [op |-> op, err |-> e.kind, method |-> e.method, ret |-> ret, set |-> set]

NoSet == [frames |-> {}, geometries |-> {}]

\* geometry::GeometrySet built from frame ids and geometry ids.
GeometrySet(frames, geometries) == [frames |-> frames, geometries |-> geometries]

\* A DRAKE_DEMAND that fails aborts the process: nothing runs after it.
Alive == last.err # "Abort"

\* ------------------------------------------------ MultibodyTree queries
num_bodies == Len(body_instance)
Bodies == 0 .. (num_bodies - 1)
num_joints == Len(joints)
num_actuators == Len(actuators)
Instances == 0 .. (num_model_instances - 1)

is_finalized == topology_is_valid
is_discrete == time_step_ > 0
geometry_source_is_registered == source_id_ # Invalid
num_collision_geometries == Cardinality(DOMAIN geometry_id_to_collision_index_)

HasInboardJoint(b) == \E j \in 1 .. Len(joints) : joints[j][2] = b
JointInstance(j) == body_instance[joints[j][2] + 1]

\* A body with no inboard joint floats (7 positions, 6 velocities); a jointed
\* body has a single-dof joint; the world has no state.
BodyNq(b) == IF b = world_index THEN 0 ELSE IF HasInboardJoint(b) THEN 1 ELSE 7
BodyNv(b) == IF b = world_index THEN 0 ELSE IF HasInboardJoint(b) THEN 1 ELSE 6

num_positions == SumOver([b \in Bodies |-> BodyNq(b)], Bodies)
num_velocities == SumOver([b \in Bodies |-> BodyNv(b)], Bodies)
num_multibody_states == num_positions + num_velocities
BodiesOf(i) == {b \in Bodies : body_instance[b + 1] = i}
num_positions_of(i) == SumOver([b \in Bodies |-> BodyNq(b)], BodiesOf(i))
num_velocities_of(i) == SumOver([b \in Bodies |-> BodyNv(b)], BodiesOf(i))
num_states_of(i) == num_positions_of(i) + num_velocities_of(i)
num_actuated_dofs_of(i) ==
  Cardinality({a \in 1 .. Len(actuators) : JointInstance(actuators[a]) = i})
num_actuated_dofs == Len(actuators)

\* ------------------------------------------------------------------ Init
\* The data of the solver's current problem: the context state it was set up
\* from and the number of contacts; none before the first update.
NoProblem == [x |-> Invalid, contacts |-> Invalid]
NoSolver ==
  [made |-> 0, nv |-> Invalid, stiction_tolerance |-> Invalid, problem |-> NoProblem]

\* A kinematics cache: null until DeclareCacheEntries allocates it; x is the
\* context state it was last computed from.
NoCache == [allocated |-> FALSE, x |-> Invalid]
NewCache == [allocated |-> TRUE, x |-> Invalid]
\* contact_results_: the context state and the contacts last saved in it.
NoContactResults == [x |-> Invalid, contacts |-> 0]

NoPorts ==
  [instance_actuation_ports_ |-> <<>>,
   actuated_instance_ |-> Invalid,
   continuous_state_output_port_ |-> Invalid,
   instance_continuous_state_output_ports_ |-> <<>>,
   instance_generalized_contact_forces_output_ports_ |-> <<>>,
   contact_results_port_ |-> Invalid,
   geometry_query_port_ |-> Invalid,
   geometry_pose_port_ |-> Invalid,
   pose_frame_ids |-> {}]

NoSys ==
  [periodic |-> <<>>, discrete_groups |-> <<>>, continuous |-> <<>>,
   num_input_ports |-> 0, num_output_ports |-> 0, cache_entries |-> 0]

\* No numerical routine has been called.
NoCalc == [routine |-> "", args |-> <<>>, value |-> <<>>]

\* Mutant: the constructor adds no entry for the world body.
WorldEntries_None == <<>>

\* emplace_back(): the per-body lists start with the world body's empty entry.
WorldEntries == << <<>> >>

\* The state after MultibodyPlant(time_step): the tree holds the world body in
\* the world model instance, and the per-body lists hold the world's entry.
PlantInit ==
  /\ topology_is_valid = FALSE
  /\ num_model_instances = 2
  /\ body_instance = <<0>>
  /\ joints = <<>>
  /\ actuators = <<>>
  /\ time_step_ \in {0, 1}
  /\ source_id_ = Invalid
  /\ scene_graph_ = Null
  /\ geometry_id_to_body_index_ = EmptyMap
  /\ geometry_id_to_visual_index_ = EmptyMap
  /\ geometry_id_to_collision_index_ = EmptyMap
  /\ visual_geometries_ = WorldEntries
  /\ collision_geometries_ = WorldEntries
  /\ default_coulomb_friction_ = <<>>
  /\ body_index_to_frame_id_ = EmptyMap
  /\ penalty_method_contact_parameters_ = [allowance |-> Invalid]
  /\ stribeck_model_ = [stiction_tolerance |-> Invalid]
  /\ implicit_stribeck_solver_ = NoSolver
  /\ pc_ = NoCache
  /\ vc_ = NoCache
  /\ contact_results_ = NoContactResults
  /\ ports = NoPorts
  /\ sys = NoSys
  /\ sg_sources = {}
  /\ sg_frames = {}
  /\ sg_geometries = {}
  /\ sg_within = {}
  /\ sg_between = {}
  /\ sg_calls = 0
  /\ last = Outcome("MultibodyPlant", Ok, Invalid, NoSet)
  /\ issued = {}

Init == PlantInit /\ calc = NoCalc

\* MultibodyPlant(0.0): a continuous plant.
InitContinuous == Init /\ time_step_ = 0

\* ------------------------------------------------- MultibodyTree building
\* The tree refuses every topology change once its topology is valid.
TreeMutationError(method) ==
  IF topology_is_valid
    THEN Outcome(method, Err("PostFinalizeMutation", method), Invalid, NoSet)
    ELSE Outcome(method, Ok, Invalid, NoSet)

AddModelInstance ==
  /\ Alive
  /\ last' = [TreeMutationError("AddModelInstance") EXCEPT
                !.ret = IF topology_is_valid THEN Invalid ELSE num_model_instances]
  /\ IF topology_is_valid
       THEN UNCHANGED num_model_instances
       ELSE num_model_instances' = num_model_instances + 1
  /\ UNCHANGED <<topology_is_valid, body_instance, joints, actuators, time_step_, calc,
                 contact_results_,
                 sourceVars, registryVars, contactVars, declVars, sgVars, issued>>

\* AddRigidBody(name, model_instance, M): the body is added to the tree and the
\* plant appends the body's (empty) visual and collision lists.
AddRigidBody(model_instance) ==
  /\ Alive
  /\ model_instance \in Instances \ {0}
  /\ last' = [TreeMutationError("AddRigidBody") EXCEPT
                !.ret = IF topology_is_valid THEN Invalid ELSE num_bodies]
  /\ IF topology_is_valid
       THEN UNCHANGED <<body_instance, visual_geometries_, collision_geometries_>>
       ELSE /\ body_instance' = Append(body_instance, model_instance)
            /\ visual_geometries_' = Append(visual_geometries_, <<>>)
            /\ collision_geometries_' = Append(collision_geometries_, <<>>)
  /\ UNCHANGED <<topology_is_valid, num_model_instances, joints, actuators,
                 time_step_, calc, contact_results_, sourceVars, geometry_id_to_body_index_,
                 geometry_id_to_visual_index_, geometry_id_to_collision_index_,
                 default_coulomb_friction_, body_index_to_frame_id_, contactVars,
                 declVars, sgVars, issued>>

ParentOf(b) == joints[CHOOSE j \in 1 .. Len(joints) : joints[j][2] = b][1]

RECURSIVE IsAncestor(_, _, _)
IsAncestor(a, b, fuel) ==
  IF fuel = 0 \/ ~HasInboardJoint(b) THEN FALSE
  ELSE ParentOf(b) = a \/ IsAncestor(a, ParentOf(b), fuel - 1)

\* AddJoint(parent, child): the child gets its one inboard joint; the joints
\* form a tree rooted at bodies without a joint.
AddJoint(parent, child) ==
  /\ Alive
  /\ parent \in Bodies
  /\ child \in Bodies \ {world_index}
  /\ parent # child
  /\ last' = [TreeMutationError("AddJoint") EXCEPT
                !.ret = IF topology_is_valid THEN Invalid ELSE num_joints]
  /\ IF topology_is_valid
       THEN UNCHANGED joints
       ELSE /\ ~HasInboardJoint(child)
            /\ ~IsAncestor(child, parent, num_bodies)
            /\ joints' = Append(joints, <<parent, child>>)
  /\ UNCHANGED <<topology_is_valid, num_model_instances, body_instance, actuators,
                 time_step_, calc, contact_results_, sourceVars, registryVars, contactVars,
                 declVars,
                 sgVars, issued>>

\* AddJointActuator(name, joint): the actuator takes the next actuator index and
\* belongs to the model instance of its joint.
AddJointActuator(joint) ==
  /\ Alive
  /\ joint \in 1 .. num_joints
  /\ last' = [TreeMutationError("AddJointActuator") EXCEPT
                !.ret = IF topology_is_valid THEN Invalid ELSE num_actuators]
  /\ IF topology_is_valid
       THEN UNCHANGED actuators
       ELSE /\ joint \notin SeqToSet(actuators)
            /\ actuators' = Append(actuators, joint)
  /\ UNCHANGED <<topology_is_valid, num_model_instances, body_instance, joints,
                 time_step_, calc, contact_results_, sourceVars, registryVars, contactVars,
                 declVars,
                 sgVars, issued>>

\* ---------------------------------------------------- finalize guards
ThrowIfFinalized(source_method) ==
  IF is_finalized THEN Err("PostFinalizeMutation", source_method) ELSE Ok

ThrowIfNotFinalized(source_method) ==
  IF ~is_finalized THEN Err("PreFinalizeUse", source_method) ELSE Ok

\* DRAKE_THROW_UNLESS(condition) inside `method`.
ThrowUnless(condition, kind, method) == IF condition THEN Ok ELSE Err(kind, method)

\* The first exception thrown by a sequence of checks, or Ok.
RECURSIVE FirstError(_)
FirstError(checks) ==
  IF checks = <<>> THEN Ok
  ELSE IF Head(checks) # Ok THEN Head(checks)
  ELSE FirstError(Tail(checks))

\* ------------------------------------------- RegisterAsSourceForSceneGraph
\* Mutant: a plant that already holds a source id is not refused.
RegisterAsSourceError_NoDuplicateCheck(scene_graph) ==
  ThrowUnless(scene_graph # Null, "InvalidArgument", "RegisterAsSourceForSceneGraph")

RegisterAsSourceError(scene_graph) ==
  FirstError(<<
    ThrowUnless(scene_graph # Null, "InvalidArgument",
                "RegisterAsSourceForSceneGraph"),
    ThrowUnless(~geometry_source_is_registered, "DuplicateSourceRegistration",
                "RegisterAsSourceForSceneGraph") >>)

NewSourceId == Cardinality(sg_sources) + 1
NewFrameId == Cardinality(sg_frames) + 1
NewGeometryId == Cardinality(sg_geometries) + 1

RegisterAsSourceForSceneGraph(scene_graph) ==
  /\ Alive
  /\ LET err == RegisterAsSourceError(scene_graph) IN
     IF err # Ok
       THEN /\ last' = Outcome("RegisterAsSourceForSceneGraph", err, Invalid, NoSet)
            /\ UNCHANGED <<sourceVars, sgVars>>
       ELSE /\ sg_sources' = sg_sources \cup
                               {[engine |-> scene_graph, source |-> NewSourceId]}
            /\ sg_calls' = sg_calls + 1
            /\ source_id_' = NewSourceId
            /\ scene_graph_' = scene_graph
            /\ last' = Outcome("RegisterAsSourceForSceneGraph", Ok, NewSourceId, NoSet)
            /\ UNCHANGED <<sg_frames, sg_geometries, sg_within, sg_between>>
  /\ UNCHANGED <<treeVars, time_step_, calc, contact_results_, registryVars, contactVars,
                 declVars, issued>>

\* ------------------------------------------------- geometry registration
\* Mutant: a frame is registered for the body with every geometry.
RegisterGeometry_FrameEachTime(body, scene_graph, geometry_id) ==
  /\ body_index_to_frame_id_' =
       [b \in DOMAIN body_index_to_frame_id_ \cup {body} |->
          IF b = body THEN NewFrameId ELSE body_index_to_frame_id_[b]]
  /\ sg_frames' = sg_frames \cup {[engine |-> scene_graph, source |-> source_id_,
                                    frame |-> NewFrameId, body |-> body]}
  /\ sg_geometries' = sg_geometries \cup
       {[engine |-> scene_graph, source |-> source_id_, frame |-> NewFrameId,
         id |-> geometry_id]}
  /\ sg_calls' = sg_calls + 2
  /\ geometry_id_to_body_index_' = geometry_id_to_body_index_ @@ (geometry_id :> body)

\* RegisterGeometry(body, ..., scene_graph): registers the body's frame on first
\* use, then the geometry in that frame, and records the owning body.
RegisterGeometry(body, scene_graph, geometry_id) ==
  LET has_frame == body \in DOMAIN body_index_to_frame_id_
      frame_id == IF has_frame THEN body_index_to_frame_id_[body] ELSE NewFrameId
  IN
  /\ body_index_to_frame_id_' =
       IF has_frame THEN body_index_to_frame_id_
       ELSE body_index_to_frame_id_ @@ (body :> frame_id)
  /\ sg_frames' =
       IF has_frame THEN sg_frames
       ELSE sg_frames \cup {[engine |-> scene_graph, source |-> source_id_,
                             frame |-> frame_id, body |-> body]}
  /\ sg_geometries' = sg_geometries \cup
       {[engine |-> scene_graph, source |-> source_id_, frame |-> frame_id,
         id |-> geometry_id]}
  /\ sg_calls' = sg_calls + (IF has_frame THEN 1 ELSE 2)
  /\ geometry_id_to_body_index_' = geometry_id_to_body_index_ @@ (geometry_id :> body)

\* Mutant: the anchored geometry's owner is not recorded.
RegisterAnchoredGeometry_NoOwner(scene_graph, geometry_id) ==
  /\ sg_geometries' = sg_geometries \cup
       {[engine |-> scene_graph, source |-> source_id_, frame |-> Invalid,
         id |-> geometry_id]}
  /\ sg_calls' = sg_calls + 1
  /\ UNCHANGED <<geometry_id_to_body_index_, body_index_to_frame_id_, sg_frames>>

\* RegisterAnchoredGeometry(..., scene_graph): no frame; the owner is the world.
RegisterAnchoredGeometry(scene_graph, geometry_id) ==
  /\ sg_geometries' = sg_geometries \cup
       {[engine |-> scene_graph, source |-> source_id_, frame |-> Invalid,
         id |-> geometry_id]}
  /\ sg_calls' = sg_calls + 1
  /\ geometry_id_to_body_index_' =
       geometry_id_to_body_index_ @@ (geometry_id :> world_index)
  /\ UNCHANGED <<body_index_to_frame_id_, sg_frames>>

\* Mutant: the check that the engine is the one the source was registered on
\* is left out.
RegisterVisualGeometryError_NoMismatch(scene_graph) ==
  FirstError(<<
    ThrowIfFinalized("RegisterVisualGeometry"),
    ThrowUnless(scene_graph # Null, "InvalidArgument", "RegisterVisualGeometry"),
    ThrowUnless(geometry_source_is_registered, "SourceNotRegistered",
                "RegisterVisualGeometry") >>)

RegisterVisualGeometryError(scene_graph) ==
  FirstError(<<
    ThrowIfFinalized("RegisterVisualGeometry"),
    ThrowUnless(scene_graph # Null, "InvalidArgument", "RegisterVisualGeometry"),
    ThrowUnless(geometry_source_is_registered, "SourceNotRegistered",
                "RegisterVisualGeometry"),
    ThrowUnless(scene_graph = scene_graph_, "SceneGraphMismatch",
                "RegisterVisualGeometry") >>)

RegisterVisualGeometry(body, scene_graph) ==
  /\ Alive
  /\ body \in Bodies
  /\ LET err == RegisterVisualGeometryError(scene_graph)
         id == NewGeometryId
     IN
     IF err # Ok
       THEN /\ last' = Outcome("RegisterVisualGeometry", err, Invalid, NoSet)
            /\ UNCHANGED <<registryVars, sgVars, issued>>
       ELSE /\ IF body = world_index
                 THEN RegisterAnchoredGeometry(scene_graph, id)
                 ELSE RegisterGeometry(body, scene_graph, id)
            /\ geometry_id_to_visual_index_' = geometry_id_to_visual_index_ @@
                 (id :> Cardinality(DOMAIN geometry_id_to_visual_index_))
            /\ visual_geometries_' =
                 [visual_geometries_ EXCEPT ![body + 1] = Append(@, id)]
            /\ last' = Outcome("RegisterVisualGeometry", Ok, id, NoSet)
            /\ issued' = issued \cup
                 {[id |-> id, body |-> body, role |-> "visual", friction |-> Invalid,
                   order |-> Cardinality(issued)]}
            /\ UNCHANGED <<geometry_id_to_collision_index_, collision_geometries_,
                           default_coulomb_friction_, sg_sources, sg_within,
                           sg_between>>
  /\ UNCHANGED <<treeVars, time_step_, calc, contact_results_, sourceVars, contactVars,
                 declVars>>

\* Mutant: the finalized check is made after the argument checks.
RegisterCollisionGeometryError_ArgsFirst(scene_graph) ==
  FirstError(<<
    ThrowUnless(scene_graph # Null, "InvalidArgument", "RegisterCollisionGeometry"),
    ThrowUnless(geometry_source_is_registered, "SourceNotRegistered",
                "RegisterCollisionGeometry"),
    ThrowUnless(scene_graph = scene_graph_, "SceneGraphMismatch",
                "RegisterCollisionGeometry"),
    ThrowIfFinalized("RegisterCollisionGeometry") >>)

\* Mutant: the collision index counts every registered geometry.
collision_index_AllGeometries == Cardinality(DOMAIN geometry_id_to_body_index_)

\* const int collision_index = geometry_id_to_collision_index_.size();
collision_index == Cardinality(DOMAIN geometry_id_to_collision_index_)

RegisterCollisionGeometryError(scene_graph) ==
  FirstError(<<
    ThrowIfFinalized("RegisterCollisionGeometry"),
    ThrowUnless(scene_graph # Null, "InvalidArgument", "RegisterCollisionGeometry"),
    ThrowUnless(geometry_source_is_registered, "SourceNotRegistered",
                "RegisterCollisionGeometry"),
    ThrowUnless(scene_graph = scene_graph_, "SceneGraphMismatch",
                "RegisterCollisionGeometry") >>)

RegisterCollisionGeometry(body, coulomb_friction, scene_graph) ==
  /\ Alive
  /\ body \in Bodies
  /\ LET err == RegisterCollisionGeometryError(scene_graph)
         id == NewGeometryId
     IN
     IF err # Ok
       THEN /\ last' = Outcome("RegisterCollisionGeometry", err, Invalid, NoSet)
            /\ UNCHANGED <<registryVars, sgVars, issued>>
       ELSE /\ IF body = world_index
                 THEN RegisterAnchoredGeometry(scene_graph, id)
                 ELSE RegisterGeometry(body, scene_graph, id)
            /\ geometry_id_to_collision_index_' = geometry_id_to_collision_index_ @@
                 (id :> collision_index)
            /\ default_coulomb_friction_' =
                 Append(default_coulomb_friction_, coulomb_friction)
            /\ collision_geometries_' =
                 [collision_geometries_ EXCEPT ![body + 1] = Append(@, id)]
            /\ last' = Outcome("RegisterCollisionGeometry", Ok, id, NoSet)
            /\ issued' = issued \cup
                 {[id |-> id, body |-> body, role |-> "collision",
                   friction |-> coulomb_friction, order |-> Cardinality(issued)]}
            /\ UNCHANGED <<geometry_id_to_visual_index_, visual_geometries_,
                           sg_sources, sg_within, sg_between>>
  /\ UNCHANGED <<treeVars, time_step_, calc, contact_results_, sourceVars, contactVars,
                 declVars>>

\* ---------------------------------------------------------------- Finalize
\* model_->Finalize(): the tree refuses to be finalized twice.
TreeFinalizeError ==
  IF topology_is_valid THEN Err("TreeAlreadyFinalized", "Finalize") ELSE Ok

\* Mutant: the engine passed to Finalize is not compared with the saved one.
FilterAdjacentBodiesError_NoMismatch(scene_graph) ==
  IF geometry_source_is_registered
    THEN ThrowUnless(scene_graph # Null, "MissingSceneGraph", "FilterAdjacentBodies")
    ELSE Ok

FilterAdjacentBodiesError(scene_graph) ==
  IF geometry_source_is_registered
    THEN FirstError(<<
           ThrowUnless(scene_graph # Null, "MissingSceneGraph", "FilterAdjacentBodies"),
           ThrowUnless(scene_graph = scene_graph_, "SceneGraphMismatch",
                       "FilterAdjacentBodies") >>)
    ELSE Ok

GetBodyFrameIdIfExists(body) ==
  IF body \in DOMAIN body_index_to_frame_id_
    THEN body_index_to_frame_id_[body] ELSE Invalid

\* The joints for which FilterAdjacentBodies calls ExcludeCollisionsBetween:
\* the parent is not the world and both bodies have a frame.
FilteredJoints ==
  {j \in 1 .. Len(joints) :
     /\ joints[j][1] # world_index
     /\ GetBodyFrameIdIfExists(joints[j][2]) # Invalid
     /\ GetBodyFrameIdIfExists(joints[j][1]) # Invalid}

\* Mutant: the child's frame is passed on both sides.
AdjacentExclusion_ChildTwice(scene_graph, j) ==
  [engine |-> scene_graph,
   A |-> GeometrySet({GetBodyFrameIdIfExists(joints[j][2])}, {}),
   B |-> GeometrySet({GetBodyFrameIdIfExists(joints[j][2])}, {})]

\* One ExcludeCollisionsBetween(GeometrySet(child frame), GeometrySet(parent frame))
\* per filtered joint.
AdjacentExclusion(scene_graph, j) ==
  [engine |-> scene_graph,
   A |-> GeometrySet({GetBodyFrameIdIfExists(joints[j][2])}, {}),
   B |-> GeometrySet({GetBodyFrameIdIfExists(joints[j][1])}, {})]

ExcludeCollisionsWithVisualGeometryError(scene_graph) ==
  IF geometry_source_is_registered
    THEN ThrowUnless(scene_graph # Null, "MissingSceneGraph",
                     "ExcludeCollisionsWithVisualGeometry")
    ELSE Ok

\* Mutant: the world's entry of visual_geometries_ is skipped.
VisualSet_SkipWorld ==
  GeometrySet({}, UNION {SeqToSet(visual_geometries_[i]) :
                           i \in 2 .. Len(visual_geometries_)})

VisualSet ==
  GeometrySet({}, UNION {SeqToSet(visual_geometries_[i]) :
                           i \in 1 .. Len(visual_geometries_)})
CollisionSet ==
  GeometrySet({}, UNION {SeqToSet(collision_geometries_[i]) :
                           i \in 1 .. Len(collision_geometries_)})

Rank(i, S) == Cardinality({j \in S : j < i})
Resized(old, n) == [i \in 1 .. n |-> IF i <= Len(old) THEN old[i] ELSE Invalid]
Greatest(S) == CHOOSE x \in S : \A y \in S : y <= x

\* Mutant: the continuous state is declared for a discrete plant as well.
DeclareState_ContinuousToo(s) ==
  [s EXCEPT
     !.periodic = IF is_discrete THEN Append(@, time_step_) ELSE @,
     !.discrete_groups = IF is_discrete THEN Append(@, num_multibody_states) ELSE @,
     !.continuous = Append(@, [size |-> num_multibody_states, nq |-> num_positions,
                               nv |-> num_velocities, nz |-> 0])]

\* DeclareStateAndPorts(), the state: a periodic update and one discrete group
\* for a discrete plant, a continuous state otherwise.
DeclareState(s) ==
  [s EXCEPT
     !.periodic = IF is_discrete THEN Append(@, time_step_) ELSE @,
     !.discrete_groups = IF is_discrete THEN Append(@, num_multibody_states) ELSE @,
     !.continuous = IF is_discrete THEN @
                    ELSE Append(@, [size |-> num_multibody_states, nq |-> num_positions,
                                    nv |-> num_velocities, nz |-> 0])]

\* DeclareStateAndPorts(): the system state and the ports are declared on the
\* LeafSystem (s) and their indices stored in the plant (p).
DeclareStateAndPorts(s, p) ==
  LET act == {i \in Instances : num_actuated_dofs_of(i) > 0}
      st == {i \in Instances : num_states_of(i) > 0}
      vel == {i \in Instances : num_velocities_of(i) > 0}
      in0 == s.num_input_ports
      out0 == s.num_output_ports
      n == num_model_instances
  IN
  [sys |->
     [DeclareState(s) EXCEPT
        !.num_input_ports = in0 + Cardinality(act),
        !.num_output_ports = out0 + 1 + Cardinality(st) + Cardinality(vel) + 1],
   ports |->
     [p EXCEPT
        !.instance_actuation_ports_ =
           [i \in 1 .. n |->
              IF (i - 1) \in act THEN in0 + Rank(i - 1, act)
              ELSE Resized(p.instance_actuation_ports_, n)[i]],
        !.actuated_instance_ =
           IF Cardinality(act) = 1 THEN Greatest(act) ELSE p.actuated_instance_,
        !.continuous_state_output_port_ = out0,
        !.instance_continuous_state_output_ports_ =
           [i \in 1 .. n |->
              IF (i - 1) \in st THEN out0 + 1 + Rank(i - 1, st)
              ELSE Resized(p.instance_continuous_state_output_ports_, n)[i]],
        !.instance_generalized_contact_forces_output_ports_ =
           [i \in 1 .. n |->
              IF (i - 1) \in vel THEN out0 + 1 + Cardinality(st) + Rank(i - 1, vel)
              ELSE Resized(p.instance_generalized_contact_forces_output_ports_, n)[i]],
        !.contact_results_port_ = out0 + 1 + Cardinality(st) + Cardinality(vel)]]

\* DeclareSceneGraphPorts(): the query input port and the pose output port, the
\* latter sized for every frame id in body_index_to_frame_id_.
DeclareSceneGraphPorts(d) ==
  [sys |-> [d.sys EXCEPT !.num_input_ports = @ + 1, !.num_output_ports = @ + 1],
   ports |-> [d.ports EXCEPT
                !.geometry_query_port_ = d.sys.num_input_ports,
                !.geometry_pose_port_ = d.sys.num_output_ports,
                !.pose_frame_ids = {body_index_to_frame_id_[b] :
                                      b \in DOMAIN body_index_to_frame_id_}]]

\* DeclareCacheEntries(): pc_ and vc_ are (re)created.
DeclareCacheEntries(d) ==
  [d EXCEPT !.sys.cache_entries = @ + 1]

DefaultPenetrationAllowance == 1   \* 0.001 m, in millimetres
DefaultStictionTolerance == 1      \* 0.001 m/s, in millimetres per second

\* set_stiction_tolerance(v_stiction): the Stribeck model takes the tolerance,
\* and so does the solver of a discrete plant once Finalize has made it.
set_stiction_tolerance(v_stiction) ==
  /\ Alive
  /\ v_stiction > 0
  /\ stribeck_model_' = [stiction_tolerance |-> v_stiction]
  /\ implicit_stribeck_solver_' =
       IF is_discrete /\ implicit_stribeck_solver_.made > 0
         THEN [implicit_stribeck_solver_ EXCEPT !.stiction_tolerance = v_stiction]
         ELSE implicit_stribeck_solver_
  /\ last' = Outcome("set_stiction_tolerance", Ok, Invalid, NoSet)
  /\ UNCHANGED <<treeVars, time_step_, calc, contact_results_, sourceVars, registryVars,
                 penalty_method_contact_parameters_, declVars, sgVars, issued>>

\* Mutant: with collision geometry the default stiction tolerance is applied
\* whether or not the user has set one.
FinalizePlantOnly_DefaultOverUser ==
  LET d1 == DeclareStateAndPorts(sys, ports)
      d2 == IF source_id_ # Invalid THEN DeclareSceneGraphPorts(d1) ELSE d1
      d3 == DeclareCacheEntries(d2)
      stiction ==
        IF num_collision_geometries > 0
          THEN DefaultStictionTolerance
          ELSE stribeck_model_.stiction_tolerance
  IN
  /\ sys' = d3.sys
  /\ ports' = d3.ports
  /\ pc_' = NewCache
  /\ vc_' = NewCache
  /\ scene_graph_' = Null
  /\ penalty_method_contact_parameters_' =
       IF num_collision_geometries > 0 /\ penalty_method_contact_parameters_.allowance < 0
         THEN [allowance |-> DefaultPenetrationAllowance]
         ELSE penalty_method_contact_parameters_
  /\ stribeck_model_' = [stiction_tolerance |-> stiction]
  /\ implicit_stribeck_solver_' =
       IF is_discrete
         THEN [made |-> implicit_stribeck_solver_.made + 1,
               nv |-> num_velocities,
               stiction_tolerance |-> stiction,
               problem |-> NoProblem]
         ELSE implicit_stribeck_solver_

\* FinalizePlantOnly(): everything Finalize does after the collision filters.
FinalizePlantOnly ==
  LET d1 == DeclareStateAndPorts(sys, ports)
      d2 == IF source_id_ # Invalid THEN DeclareSceneGraphPorts(d1) ELSE d1
      d3 == DeclareCacheEntries(d2)
      stiction ==
        IF num_collision_geometries > 0 /\ stribeck_model_.stiction_tolerance < 0
          THEN DefaultStictionTolerance
          ELSE stribeck_model_.stiction_tolerance
  IN
  /\ sys' = d3.sys
  /\ ports' = d3.ports
  /\ pc_' = NewCache
  /\ vc_' = NewCache
  /\ scene_graph_' = Null
  /\ penalty_method_contact_parameters_' =
       IF num_collision_geometries > 0 /\ penalty_method_contact_parameters_.allowance < 0
         THEN [allowance |-> DefaultPenetrationAllowance]
         ELSE penalty_method_contact_parameters_
  /\ stribeck_model_' = [stiction_tolerance |-> stiction]
  /\ implicit_stribeck_solver_' =
       IF is_discrete
         THEN [made |-> implicit_stribeck_solver_.made + 1,
               nv |-> num_velocities,
               stiction_tolerance |-> stiction,
               problem |-> NoProblem]
         ELSE implicit_stribeck_solver_

\* Finalize(scene_graph): model_->Finalize(); FilterAdjacentBodies(scene_graph);
\* ExcludeCollisionsWithVisualGeometry(scene_graph); FinalizePlantOnly().
\* A throw leaves in place what the earlier steps did.
FinalizeSteps(e1, scene_graph) ==
  /\ Alive
  /\ LET e2 == FilterAdjacentBodiesError(scene_graph)
         e3 == ExcludeCollisionsWithVisualGeometryError(scene_graph)
     IN
     IF e1 # Ok
       THEN /\ last' = Outcome("Finalize", e1, Invalid, NoSet)
            /\ UNCHANGED <<topology_is_valid, scene_graph_, contactVars, declVars,
                           sgVars>>
     ELSE IF e2 # Ok
       THEN /\ topology_is_valid' = TRUE
            /\ last' = Outcome("Finalize", e2, Invalid, NoSet)
            /\ UNCHANGED <<scene_graph_, contactVars, declVars, sgVars>>
     ELSE IF e3 # Ok
       THEN /\ topology_is_valid' = TRUE
            /\ sg_between' = sg_between \cup
                 {AdjacentExclusion(scene_graph, j) : j \in FilteredJoints}
            /\ sg_calls' = sg_calls + Cardinality(FilteredJoints)
            /\ last' = Outcome("Finalize", e3, Invalid, NoSet)
            /\ UNCHANGED <<scene_graph_, contactVars, declVars, sg_sources,
                           sg_frames, sg_geometries, sg_within>>
     ELSE /\ topology_is_valid' = TRUE
          /\ IF geometry_source_is_registered
               THEN /\ sg_between' = sg_between \cup
                         {AdjacentExclusion(scene_graph, j) : j \in FilteredJoints}
                         \cup {[engine |-> scene_graph, A |-> VisualSet,
                                B |-> CollisionSet]}
                    /\ sg_within' = sg_within \cup
                         {[engine |-> scene_graph, set |-> VisualSet]}
                    /\ sg_calls' = sg_calls + Cardinality(FilteredJoints) + 2
               ELSE UNCHANGED <<sg_between, sg_within, sg_calls>>
          /\ FinalizePlantOnly
          /\ last' = Outcome("Finalize", Ok, Invalid, NoSet)
          /\ UNCHANGED <<sg_sources, sg_frames, sg_geometries>>
  /\ UNCHANGED <<num_model_instances, body_instance, joints, actuators, time_step_, calc,
                 contact_results_,
                 source_id_, registryVars, issued>>

\* ------------------------------------------------------------ accessors
\* A const accessor: the caller gets the exception or the value; the plant
\* does not change.
Accessor(op, e, ret, set) ==
  /\ Alive
  /\ last' = Outcome(op, e, IF e = Ok THEN ret ELSE Invalid,
                     IF e = Ok THEN set ELSE NoSet)
  /\ UNCHANGED <<treeVars, time_step_, calc, contact_results_, sourceVars, registryVars,
                 contactVars,
                 declVars, sgVars, issued>>

\* std::vector::at(index) on a per-instance vector of port indices; handing an
\* invalid port index to the System is refused by the System.
At(vector, index) ==
  IF index + 1 \in DOMAIN vector THEN vector[index + 1] ELSE Invalid
PortError(port, method) == ThrowUnless(port # Invalid, "InvalidPortIndex", method)

ActuationInputPortChecks(model_instance) ==
  <<ThrowIfNotFinalized("get_actuation_input_port"),
    ThrowUnless(model_instance # Invalid, "InvalidArgument", "get_actuation_input_port"),
    ThrowUnless(model_instance < num_model_instances, "InvalidArgument",
                "get_actuation_input_port"),
    ThrowUnless(num_actuated_dofs_of(model_instance) > 0, "InvalidArgument",
                "get_actuation_input_port"),
    PortError(At(ports.instance_actuation_ports_, model_instance),
              "get_actuation_input_port")>>

\* Mutant: the convenience accessor answers with the port of the last actuated
\* instance, however many instances are actuated.
get_actuation_input_port_LastActuated ==
  LET act == {i \in Instances : num_actuated_dofs_of(i) > 0}
      instance == IF act = {} THEN Invalid ELSE Greatest(act)
  IN
  Accessor("get_actuation_input_port()",
           FirstError(<<ThrowIfNotFinalized("get_actuation_input_port"),
                        ThrowUnless(num_actuators > 0, "InvalidArgument",
                                    "get_actuation_input_port")>>
                      \o ActuationInputPortChecks(instance)),
           At(ports.instance_actuation_ports_, instance), NoSet)

\* get_actuation_input_port(): the port of the only actuated instance.
get_actuation_input_port ==
  Accessor("get_actuation_input_port()",
           FirstError(<<ThrowIfNotFinalized("get_actuation_input_port"),
                        ThrowUnless(num_actuators > 0, "InvalidArgument",
                                    "get_actuation_input_port"),
                        ThrowUnless(ports.actuated_instance_ # Invalid,
                                    "InvalidArgument", "get_actuation_input_port")>>
                      \o ActuationInputPortChecks(ports.actuated_instance_)),
           At(ports.instance_actuation_ports_, ports.actuated_instance_), NoSet)

\* Mutant: the arguments are checked before the finalized check.
get_actuation_input_port_of_ArgsFirst(model_instance) ==
  Accessor("get_actuation_input_port(instance)",
           FirstError(Tail(ActuationInputPortChecks(model_instance))
                      \o <<ThrowIfNotFinalized("get_actuation_input_port")>>),
           At(ports.instance_actuation_ports_, model_instance), NoSet)

\* get_actuation_input_port(model_instance)
get_actuation_input_port_of(model_instance) ==
  Accessor("get_actuation_input_port(instance)",
           FirstError(ActuationInputPortChecks(model_instance)),
           At(ports.instance_actuation_ports_, model_instance), NoSet)

\* get_continuous_state_output_port()
get_continuous_state_output_port ==
  Accessor("get_continuous_state_output_port()",
           FirstError(<<ThrowIfNotFinalized("get_continuous_state_output_port"),
                        PortError(ports.continuous_state_output_port_,
                                  "get_continuous_state_output_port")>>),
           ports.continuous_state_output_port_, NoSet)

\* get_continuous_state_output_port(model_instance)
get_continuous_state_output_port_of(model_instance) ==
  Accessor("get_continuous_state_output_port(instance)",
           FirstError(<<
             ThrowIfNotFinalized("get_continuous_state_output_port"),
             ThrowUnless(model_instance # Invalid, "InvalidArgument",
                         "get_continuous_state_output_port"),
             ThrowUnless(model_instance < num_model_instances, "InvalidArgument",
                         "get_continuous_state_output_port"),
             ThrowUnless(num_states_of(model_instance) > 0, "InvalidArgument",
                         "get_continuous_state_output_port"),
             PortError(At(ports.instance_continuous_state_output_ports_, model_instance),
                       "get_continuous_state_output_port")>>),
           At(ports.instance_continuous_state_output_ports_, model_instance), NoSet)

\* get_generalized_contact_forces_output_port(model_instance)
get_generalized_contact_forces_output_port(model_instance) ==
  Accessor("get_generalized_contact_forces_output_port",
           FirstError(<<
             ThrowIfNotFinalized("get_generalized_contact_forces_output_port"),
             ThrowUnless(is_discrete, "InvalidArgument",
                         "get_generalized_contact_forces_output_port"),
             ThrowUnless(model_instance # Invalid, "InvalidArgument",
                         "get_generalized_contact_forces_output_port"),
             ThrowUnless(model_instance < num_model_instances, "InvalidArgument",
                         "get_generalized_contact_forces_output_port"),
             ThrowUnless(num_states_of(model_instance) > 0, "InvalidArgument",
                         "get_generalized_contact_forces_output_port"),
             PortError(At(ports.instance_generalized_contact_forces_output_ports_,
                          model_instance),
                       "get_generalized_contact_forces_output_port")>>),
           At(ports.instance_generalized_contact_forces_output_ports_, model_instance),
           NoSet)

\* get_contact_results_output_port()
get_contact_results_output_port ==
  Accessor("get_contact_results_output_port",
           FirstError(<<ThrowIfNotFinalized("get_contact_results_output_port"),
                        ThrowUnless(is_discrete, "InvalidArgument",
                                    "get_contact_results_output_port"),
                        PortError(ports.contact_results_port_,
                                  "get_contact_results_output_port")>>),
           ports.contact_results_port_, NoSet)

\* get_geometry_poses_output_port(): DRAKE_DEMAND aborts without a source.
get_geometry_poses_output_port ==
  Accessor("get_geometry_poses_output_port",
           FirstError(<<ThrowIfNotFinalized("get_geometry_poses_output_port"),
                        ThrowUnless(geometry_source_is_registered, "Abort",
                                    "get_geometry_poses_output_port"),
                        PortError(ports.geometry_pose_port_,
                                  "get_geometry_poses_output_port")>>),
           ports.geometry_pose_port_, NoSet)

\* get_geometry_query_input_port(): DRAKE_DEMAND aborts without a source.
get_geometry_query_input_port ==
  Accessor("get_geometry_query_input_port",
           FirstError(<<ThrowIfNotFinalized("get_geometry_query_input_port"),
                        ThrowUnless(geometry_source_is_registered, "Abort",
                                    "get_geometry_query_input_port"),
                        PortError(ports.geometry_query_port_,
                                  "get_geometry_query_input_port")>>),
           ports.geometry_query_port_, NoSet)

\* CollectRegisteredGeometries(bodies): the frames of the bodies that have one,
\* and the world's collision geometries when the world is among them.
CollectRegisteredGeometries(bodies) ==
  /\ bodies \subseteq Bodies
  /\ Accessor("CollectRegisteredGeometries",
              FirstError(<<ThrowIfNotFinalized("CollectRegisteredGeometries"),
                           ThrowUnless(geometry_source_is_registered, "InvalidArgument",
                                       "CollectRegisteredGeometries")>>),
              Invalid,
              GeometrySet(
                {GetBodyFrameIdIfExists(b) :
                   b \in {x \in bodies : GetBodyFrameIdIfExists(x) # Invalid}},
                IF world_index \in bodies /\ GetBodyFrameIdIfExists(world_index) = Invalid
                  THEN SeqToSet(collision_geometries_[world_index + 1]) ELSE {}))

\* set_penetration_allowance(penetration_allowance): stiffness, damping and
\* time scale are recomputed from the allowance.
set_penetration_allowance(penetration_allowance) ==
  /\ Alive
  /\ LET e == ThrowIfNotFinalized("set_penetration_allowance") IN
     /\ last' = Outcome("set_penetration_allowance", e, Invalid, NoSet)
     /\ penalty_method_contact_parameters_' =
          IF e = Ok THEN [allowance |-> penetration_allowance]
          ELSE penalty_method_contact_parameters_
  /\ UNCHANGED <<treeVars, time_step_, calc, contact_results_, sourceVars, registryVars,
                 stribeck_model_,
                 implicit_stribeck_solver_, declVars, sgVars, issued>>

\* ------------------------------------------------------------ evaluation
\* A context handed to the plant by the framework: its state x, whether its
\* geometry query input port is connected, and the number of point pairs the
\* connected query object reports.
Contexts == [x : {1, 2}, query_connected : BOOLEAN, contacts : 0 .. 1]
\* What dereferencing the null pointer returned for an unconnected port can
\* do: end the process, or go on with whatever is read.
NullDereference == {"Crash", "Garbage"}
SolverInfo == {"Success", "Failure"}

\* CalcPointPairPenetrations(context): with collision geometry, throws when
\* geometry_query_port_ is not a valid index, else evaluates the port and
\* dereferences the result.
CalcPointPairPenetrations(context, ub) ==
  IF num_collision_geometries = 0
    THEN [e |-> Ok, contacts |-> 0, evaluated |-> FALSE]
  ELSE IF ports.geometry_query_port_ = Invalid
    THEN [e |-> Err("QueryPortDisconnected", "CalcPointPairPenetrations"),
          contacts |-> 0, evaluated |-> FALSE]
  ELSE IF context.query_connected
    THEN [e |-> Ok, contacts |-> context.contacts, evaluated |-> TRUE]
  ELSE IF ub = "Crash"
    THEN [e |-> Err("Abort", "CalcPointPairPenetrations"), contacts |-> 0,
          evaluated |-> TRUE]
  ELSE [e |-> Ok, contacts |-> context.contacts, evaluated |-> TRUE]

\* model_->CalcPositionKinematicsCache(context, pc_.get()) and its velocity
\* counterpart: the cache now holds the kinematics of the context.
Computed(cache, context) == [cache EXCEPT !.x = context.x]

\* An evaluation routine: const, it can write only through the pointers the
\* plant holds (pc_, vc_, implicit_stribeck_solver_) and into the mutable
\* contact_results_. It is run on a context, so after DeclareCacheEntries.
EvaluationInto(op, e, ret, out, pc, vc, solver, results) ==
  /\ Alive
  /\ pc_.allocated
  /\ last' = Outcome(op, e, IF e = Ok THEN ret ELSE Invalid,
                     IF e = Ok THEN out ELSE NoSet)
  /\ pc_' = pc
  /\ vc_' = vc
  /\ implicit_stribeck_solver_' = solver
  /\ contact_results_' = results
  /\ UNCHANGED <<treeVars, time_step_, calc, sourceVars, registryVars,
                 penalty_method_contact_parameters_, stribeck_model_, ports, sys,
                 sgVars, issued>>

Evaluation(op, e, ret, pc, vc, solver, results) ==
  EvaluationInto(op, e, ret, NoSet, pc, vc, solver, results)

\* DoCalcTimeDerivatives(context, derivatives)
DoCalcTimeDerivatives(context, ub) ==
  IF is_discrete
    THEN Evaluation("DoCalcTimeDerivatives", Ok, Invalid, pc_, vc_,
                    implicit_stribeck_solver_, contact_results_)
    ELSE Evaluation("DoCalcTimeDerivatives",
                    CalcPointPairPenetrations(context, ub).e, context.x,
                    Computed(pc_, context), Computed(vc_, context),
                    implicit_stribeck_solver_, contact_results_)

\* CalcContactResults(context, point_pairs, R_WC_set, &contact_results_)
CalcContactResults(context, contacts) ==
  IF num_collision_geometries = 0 THEN contact_results_
  ELSE [x |-> context.x, contacts |-> contacts]

\* DoCalcDiscreteVariableUpdates(context0, events, updates): the periodic
\* update of a discrete plant.
DoCalcDiscreteVariableUpdates(context0, ub, info) ==
  /\ is_discrete
  /\ LET r == CalcPointPairPenetrations(context0, ub)
         e == IF r.e # Ok THEN r.e
              ELSE IF info # "Success"
                THEN Err("Abort", "DoCalcDiscreteVariableUpdates")
              ELSE Ok
     IN
     Evaluation("DoCalcDiscreteVariableUpdates", e, context0.x,
                Computed(pc_, context0), Computed(vc_, context0),
                IF r.e = Ok
                  THEN [implicit_stribeck_solver_ EXCEPT
                          !.problem = [x |-> context0.x, contacts |-> r.contacts]]
                  ELSE implicit_stribeck_solver_,
                IF e = Ok THEN CalcContactResults(context0, r.contacts)
                ELSE contact_results_)

\* CopyContinuousStateOut(context, state_vector)
CopyContinuousStateOut(context) ==
  Evaluation("CopyContinuousStateOut()", ThrowIfNotFinalized("CopyContinuousStateOut"),
             context.x, pc_, vc_, implicit_stribeck_solver_, contact_results_)

\* CopyContinuousStateOut(model_instance, context, state_vector), the
\* calculator of the port declared for an instance that has states.
CopyContinuousStateOut_of(model_instance, context) ==
  /\ model_instance \in Instances
  /\ num_states_of(model_instance) > 0
  /\ Evaluation("CopyContinuousStateOut(instance)",
                ThrowIfNotFinalized("CopyContinuousStateOut"),
                context.x, pc_, vc_, implicit_stribeck_solver_, contact_results_)

\* CopyGeneralizedContactForcesOut(model_instance, context, tau_vector): the
\* forces of the solver's last solution.
CopyGeneralizedContactForcesOut(model_instance, context) ==
  /\ model_instance \in Instances
  /\ num_velocities_of(model_instance) > 0
  /\ Evaluation("CopyGeneralizedContactForcesOut",
                FirstError(<<ThrowIfNotFinalized("CopyGeneralizedContactForcesOut"),
                             ThrowUnless(is_discrete, "InvalidArgument",
                                         "CopyGeneralizedContactForcesOut")>>),
                implicit_stribeck_solver_.problem.x,
                pc_, vc_, implicit_stribeck_solver_, contact_results_)

\* CalcContactResultsOutput(context, contact_results): a copy of contact_results_.
CalcContactResultsOutput(context) ==
  Evaluation("CalcContactResultsOutput", Ok, contact_results_.x,
             pc_, vc_, implicit_stribeck_solver_, contact_results_)

\* Mutant: the pose calculation clears the plant's frame map instead of the
\* output.
CalcFramePoseOutput_ClearsFrames(context) ==
  /\ Alive
  /\ pc_.allocated
  /\ geometry_source_is_registered
  /\ last' = Outcome("CalcFramePoseOutput", ThrowIfNotFinalized("CalcFramePoseOutput"),
                     context.x, NoSet)
  /\ pc_' = Computed(pc_, context)
  /\ body_index_to_frame_id_' = EmptyMap
  /\ UNCHANGED <<treeVars, time_step_, calc, contact_results_, sourceVars, contactVars,
                 geometry_id_to_body_index_, geometry_id_to_visual_index_,
                 geometry_id_to_collision_index_, visual_geometries_,
                 collision_geometries_, default_coulomb_friction_, vc_, ports, sys,
                 sgVars, issued>>

\* pc.get_X_WB(body.node_index()): the pose of a body in the world, as a
\* position-kinematics cache computed from a context state holds it.
get_X_WB(pc, body) == [body |-> body, x |-> pc.x]

\* CalcFramePoseOutput(context, poses), the calculator of the pose port
\* declared for a plant that is a geometry source: poses is cleared, then
\* given the pose of every body in body_index_to_frame_id_ under its frame id.
CalcFramePoseOutput(context) ==
  /\ geometry_source_is_registered
  /\ LET pc == Computed(pc_, context)
         poses == [frame \in {body_index_to_frame_id_[b] :
                                b \in DOMAIN body_index_to_frame_id_} |->
                     get_X_WB(pc, CHOOSE b \in DOMAIN body_index_to_frame_id_ :
                                    body_index_to_frame_id_[b] = frame)]
     IN  EvaluationInto("CalcFramePoseOutput",
                        ThrowIfNotFinalized("CalcFramePoseOutput"), context.x, poses,
                        pc, vc_, implicit_stribeck_solver_, contact_results_)

\* Mutant: the tree is finalized only when it is not yet, so a second call
\* runs the rest of Finalize again.
Finalize_Reentrant(scene_graph) == FinalizeSteps(Ok, scene_graph)

Finalize(scene_graph) == FinalizeSteps(TreeFinalizeError, scene_graph)

\* ------------------------------------------------------------ specifications
num_geometries == Cardinality(DOMAIN geometry_id_to_body_index_)
BodyArgs == 0 .. 3

\* Spec: the geometry registry. Every registration call with every engine
\* argument, before and after Finalize, on a continuous plant.
RegBounds == num_bodies <= RegMaxBodies /\ num_geometries <= RegMaxGeometries

Next ==
  \/ AddRigidBody(1) /\ RegBounds'
  \/ \E sg \in EngineArgs : RegisterAsSourceForSceneGraph(sg)
  \/ \E b \in BodyArgs, sg \in EngineArgs : RegisterVisualGeometry(b, sg) /\ RegBounds'
  \/ \E b \in BodyArgs, f \in Frictions, sg \in EngineArgs :
       RegisterCollisionGeometry(b, f, sg) /\ RegBounds'
  \/ \E sg \in EngineArgs : Finalize(sg)

Spec == InitContinuous /\ [][Next]_vars

\* SpecLifecycle: source registration and Finalize with every engine argument,
\* on continuous and discrete plants.
LcBounds == num_bodies <= LcMaxBodies /\ num_geometries <= LcMaxGeometries

NextLifecycle ==
  \/ AddRigidBody(1) /\ LcBounds'
  \/ \E sg \in EngineArgs : RegisterAsSourceForSceneGraph(sg)
  \/ \E b \in BodyArgs, sg \in EngineArgs : RegisterVisualGeometry(b, sg) /\ LcBounds'
  \/ \E b \in BodyArgs, sg \in EngineArgs :
       RegisterCollisionGeometry(b, 1, sg) /\ LcBounds'
  \/ \E sg \in EngineArgs : Finalize(sg)

SpecLifecycle == Init /\ [][NextLifecycle]_vars

\* SpecFilters: trees with joints, geometry registered on one engine, Finalize
\* on that engine.
FltBounds ==
  /\ num_bodies <= FltMaxBodies
  /\ num_joints <= FltMaxJoints
  /\ num_geometries <= FltMaxGeometries

NextFilters ==
  \/ AddRigidBody(1) /\ FltBounds'
  \/ \E p \in BodyArgs, c \in BodyArgs : AddJoint(p, c) /\ FltBounds'
  \/ RegisterAsSourceForSceneGraph(1)
  \/ \E b \in BodyArgs : RegisterVisualGeometry(b, 1) /\ FltBounds'
  \/ \E b \in BodyArgs : RegisterCollisionGeometry(b, 1, 1) /\ FltBounds'
  \/ Finalize(1)

SpecFilters == InitContinuous /\ [][NextFilters]_vars

\* ------------------------------------------------------------------ claims
\* A Finalize call has succeeded: FinalizePlantOnly has created the caches.
FinalizeSucceeded == sys.cache_entries > 0

\* A geometry registration call with these arguments is this step.
RegistrationCall(b, sg) ==
  \/ RegisterVisualGeometry(b, sg)
  \/ \E f \in Frictions : RegisterCollisionGeometry(b, f, sg)

\* C2: once the plant is finalized, every RegisterVisualGeometry or
\* RegisterCollisionGeometry call, whatever its engine argument, fails with
\* PostFinalizeMutation, changes no registry structure and calls no engine.
C2_PostFinalizeRegistration ==
  [][\A b \in BodyArgs, sg \in EngineArgs :
       (is_finalized /\ RegistrationCall(b, sg)) =>
         /\ last'.err = "PostFinalizeMutation"
         /\ UNCHANGED registryVars
         /\ UNCHANGED sgVars]_vars

C2_Witness ==
  /\ FinalizeSucceeded
  /\ num_geometries > 0
  /\ last.op = "RegisterCollisionGeometry"
  /\ last.err = "PostFinalizeMutation"

\* C7: before Finalize, a registration call fails when its engine argument is
\* null, when no source is registered, or (SceneGraphMismatch) when the engine
\* is not the one the source was registered on; a failed call registers no
\* frame and no geometry and changes no registry structure.
C7_PreFinalizeRegistrationFailures ==
  [][\A b \in BodyArgs, sg \in EngineArgs :
       (~is_finalized /\ RegistrationCall(b, sg)) =>
         /\ (sg = Null \/ source_id_ = Invalid \/ sg # scene_graph_)
              => last'.err # "ok"
         /\ (sg # Null /\ source_id_ # Invalid /\ sg # scene_graph_)
              => last'.err = "SceneGraphMismatch"
         /\ last'.err # "ok" => UNCHANGED <<registryVars, sgVars>>]_vars

C7_Witness ==
  /\ ~is_finalized
  /\ num_geometries > 0
  /\ last.op = "RegisterVisualGeometry"
  /\ last.err = "SceneGraphMismatch"

\* C10: every geometry id handed back by a successful registration is a key of
\* geometry_id_to_body_index_, maps to the body it was registered on (the
\* world for geometry registered on the world), and is in the visual
\* (collision) list of that body and of no other.
InList(lists, b, id) == id \in SeqToSet(lists[b + 1])

C10_GeometryOwner ==
  \A r \in issued :
    /\ r.id \in DOMAIN geometry_id_to_body_index_
    /\ geometry_id_to_body_index_[r.id] = r.body
    /\ \A b \in Bodies :
         IF r.role = "visual"
           THEN InList(visual_geometries_, b, r.id) <=> (b = r.body)
           ELSE InList(collision_geometries_, b, r.id) <=> (b = r.body)

C10_Witness ==
  \E r1 \in issued, r2 \in issued :
    /\ r1.body = world_index /\ r1.role = "visual"
    /\ r2.body # world_index /\ r2.role = "collision"

\* The engine whose RegisterSource() issued the plant's source id.
SourceEngine == (CHOOSE r \in sg_sources : r.source = source_id_).engine

\* C3: Finalize(engine) on a plant that is not finalized fails with
\* MissingSceneGraph exactly when a source is registered and engine is null,
\* with SceneGraphMismatch exactly when a source is registered and engine is
\* another engine than the one registered on, and otherwise succeeds; with no
\* source registered it succeeds for every engine and calls no engine.
C3_FinalizeEngineChecks ==
  [][\A sg \in EngineArgs :
       (~is_finalized /\ Finalize(sg)) =>
         LET registered == source_id_ # Invalid
             missing == registered /\ sg = Null
             mismatch == registered /\ sg # Null /\ sg # SourceEngine
         IN
         /\ (last'.err = "MissingSceneGraph") <=> missing
         /\ (last'.err = "SceneGraphMismatch") <=> mismatch
         /\ (~missing /\ ~mismatch) => (last'.err = "ok" /\ FinalizeSucceeded')
         /\ ~registered => (last'.err = "ok" /\ UNCHANGED sgVars)]_vars

C3_Witness ==
  /\ last.op = "Finalize"
  /\ last.err = "SceneGraphMismatch"
  /\ ~FinalizeSucceeded
  /\ source_id_ # Invalid

\* C4: once a Finalize call has succeeded, every later Finalize call fails and
\* declares no state, port or cache entry, installs no collision filter and
\* does not replace the solver.
C4_FinalizeOneShot ==
  [][\A sg \in EngineArgs :
       (FinalizeSucceeded /\ Finalize(sg)) =>
         /\ last'.err # "ok"
         /\ UNCHANGED <<declVars, sgVars, contactVars>>]_vars

C4_Witness ==
  /\ sys.cache_entries = 1
  /\ last.op = "Finalize"
  /\ last.err # "ok"
  /\ source_id_ # Invalid
  /\ sg_within # {}
  /\ implicit_stribeck_solver_.made = 1

\* C5: in every state after a successful Finalize the saved engine pointer is
\* null.
C5_EnginePointerErased == FinalizeSucceeded => scene_graph_ = Null

\* C6 (as stated): RegisterAsSourceForSceneGraph on a plant that already holds
\* a source id fails with DuplicateSourceRegistration, whatever its argument.
C6_DuplicateAlways ==
  [][\A sg \in EngineArgs :
       (source_id_ # Invalid /\ RegisterAsSourceForSceneGraph(sg)) =>
         last'.err = "DuplicateSourceRegistration"]_vars

\* C6 (amended): RegisterAsSourceForSceneGraph on a plant that already holds a
\* source id fails, with DuplicateSourceRegistration when the engine argument
\* is not null and with InvalidArgument when it is null; it leaves the source
\* id and the saved engine unchanged and calls no engine; so RegisterSource is
\* called at most once.
C6_DuplicateSourceRegistration ==
  /\ [][\A sg \in EngineArgs :
          (source_id_ # Invalid /\ RegisterAsSourceForSceneGraph(sg)) =>
            /\ last'.err = IF sg = Null THEN "InvalidArgument"
                           ELSE "DuplicateSourceRegistration"
            /\ UNCHANGED <<sourceVars, sgVars>>]_vars
  /\ [](Cardinality(sg_sources) <= 1)

C6_Witness ==
  /\ last.op = "RegisterAsSourceForSceneGraph"
  /\ last.err = "DuplicateSourceRegistration"
  /\ Cardinality(sg_sources) = 1

\* A Finalize call has succeeded on a plant that was registered as a geometry
\* source: the scene-graph ports were declared.
FinalizedWithSource == FinalizeSucceeded /\ ports.geometry_query_port_ # Invalid

HasGeometry(b) == \E r \in issued : r.body = b
\* The frames an engine holds for body b.
BodyFrames(b) == {f.frame : f \in {g \in sg_frames : g.body = b}}
OnlyFrame(frame) == GeometrySet({frame}, {})

\* C8: after a successful Finalize of a plant registered as a geometry source,
\* for every joint between two non-world bodies that each carry a geometry the
\* engine has received ExcludeCollisionsBetween(child frame, parent frame); and
\* no exclusion made of body frames exists for a joint with the world: every
\* frame exclusion is the one of a joint between two non-world bodies, and
\* none pairs the frame of a body with frame-less (anchored) geometry.
C8_AdjacentBodiesFiltered ==
  FinalizedWithSource =>
    /\ \A j \in 1 .. Len(joints) :
         LET parent == joints[j][1]
             child == joints[j][2]
         IN
         (parent # world_index /\ child # world_index
            /\ HasGeometry(parent) /\ HasGeometry(child)) =>
           \E fc \in BodyFrames(child), fp \in BodyFrames(parent) :
             [engine |-> SourceEngine, A |-> OnlyFrame(fc), B |-> OnlyFrame(fp)]
               \in sg_between
    /\ \A r \in sg_between :
         (r.A.frames # {} \/ r.B.frames # {}) =>
           \E j \in 1 .. Len(joints) :
             /\ joints[j][1] # world_index
             /\ joints[j][2] # world_index
             /\ r.A.geometries = {} /\ r.B.geometries = {}
             /\ r.A.frames = BodyFrames(joints[j][2])
             /\ r.B.frames = BodyFrames(joints[j][1])

C8_Witness ==
  /\ FinalizedWithSource
  /\ \E j \in 1 .. Len(joints) :
       /\ joints[j][1] # world_index
       /\ HasGeometry(joints[j][1])
       /\ HasGeometry(joints[j][2])

IssuedIds(role) == {r.id : r \in {x \in issued : x.role = role}}

\* C9: after a successful Finalize of a plant registered as a geometry source,
\* the engine has received ExcludeCollisionsWithin(V) and
\* ExcludeCollisionsBetween(V, C), V being exactly the ids handed back by
\* RegisterVisualGeometry and C exactly those handed back by
\* RegisterCollisionGeometry, on any body, the world included.
C9_VisualGeometryFiltered ==
  FinalizedWithSource =>
    LET V == GeometrySet({}, IssuedIds("visual"))
        C == GeometrySet({}, IssuedIds("collision"))
    IN
    /\ [engine |-> SourceEngine, set |-> V] \in sg_within
    /\ \A r \in sg_within : r.set = V
    /\ [engine |-> SourceEngine, A |-> V, B |-> C] \in sg_between
    /\ \A r \in sg_between : (r.A.frames = {} /\ r.B.frames = {}) => (r.A = V /\ r.B = C)

C9_Witness ==
  /\ FinalizedWithSource
  /\ \E r1 \in issued, r2 \in issued :
       /\ r1.role = "visual" /\ r1.body = world_index
       /\ r2.role = "collision" /\ r2.body # world_index

\* SpecPorts: trees with model instances and actuators, Finalize, and every
\* accessor with every argument.
PortMaxInstances == 3   \* SpecPorts: model instances, world and default included
PortMaxBodies == 2      \* SpecPorts: bodies in the tree, the world included
PortMaxJoints == 1      \* SpecPorts: joints
PortMaxActuators == 1   \* SpecPorts: joint actuators
InstanceArgs == {Invalid} \cup 0 .. 3
AllowanceArgs == {1, 2}

PortBounds ==
  /\ num_model_instances <= PortMaxInstances
  /\ num_bodies <= PortMaxBodies
  /\ num_joints <= PortMaxJoints
  /\ num_actuators <= PortMaxActuators

NextPorts ==
  \/ AddModelInstance /\ PortBounds'
  \/ \E i \in 1 .. 3 : AddRigidBody(i) /\ PortBounds'
  \/ \E c \in BodyArgs : AddJoint(world_index, c) /\ PortBounds'
  \/ \E j \in 1 .. 3 : AddJointActuator(j) /\ PortBounds'
  \/ RegisterAsSourceForSceneGraph(1)
  \/ Finalize(1)
  \/ get_actuation_input_port
  \/ \E i \in InstanceArgs : get_actuation_input_port_of(i)
  \/ get_continuous_state_output_port
  \/ \E i \in InstanceArgs : get_continuous_state_output_port_of(i)
  \/ \E i \in InstanceArgs : get_generalized_contact_forces_output_port(i)
  \/ get_contact_results_output_port
  \/ get_geometry_poses_output_port
  \/ get_geometry_query_input_port
  \/ \E bodies \in SUBSET BodyArgs : CollectRegisteredGeometries(bodies)
  \/ \E a \in AllowanceArgs : set_penetration_allowance(a)

SpecPorts == Init /\ [][NextPorts]_vars

AccessorFunc ==
  [op \in {"get_actuation_input_port()", "get_actuation_input_port(instance)",
           "get_continuous_state_output_port()",
           "get_continuous_state_output_port(instance)",
           "get_generalized_contact_forces_output_port",
           "get_contact_results_output_port", "get_geometry_poses_output_port",
           "get_geometry_query_input_port", "CollectRegisteredGeometries",
           "set_penetration_allowance"} |->
     IF op \in {"get_actuation_input_port()", "get_actuation_input_port(instance)"}
       THEN "get_actuation_input_port"
     ELSE IF op \in {"get_continuous_state_output_port()",
                     "get_continuous_state_output_port(instance)"}
       THEN "get_continuous_state_output_port"
     ELSE op]

\* C1: on a plant that is not finalized, each of the ten guarded operations
\* fails with PreFinalizeUse naming the function called, whatever its
\* argument (so the check comes before every argument check), and changes
\* nothing in the plant.
C1_PreFinalizeUse ==
  [][(~is_finalized /\ last'.op \in DOMAIN AccessorFunc) =>
       /\ last'.err = "PreFinalizeUse"
       /\ last'.method = AccessorFunc[last'.op]
       /\ UNCHANGED <<treeVars, sourceVars, registryVars, contactVars, declVars,
                      sgVars>>]_vars

C1_Witness ==
  /\ ~is_finalized
  /\ num_actuators > 0
  /\ last.op = "get_actuation_input_port(instance)"
  /\ last.err = "PreFinalizeUse"

\* C11: the keys of geometry_id_to_collision_index_ are exactly the ids handed
\* back by successful RegisterCollisionGeometry calls (no visual id is a key),
\* the indices are 0 .. n-1 in registration order, default_coulomb_friction_
\* has length n, and the friction at an id's index is the one passed when the
\* id was registered.
C11_CollisionIndexAndFriction ==
  LET n == Cardinality(IssuedIds("collision"))
      C == {r \in issued : r.role = "collision"}
  IN
  /\ DOMAIN geometry_id_to_collision_index_ = IssuedIds("collision")
  /\ IssuedIds("visual") \cap DOMAIN geometry_id_to_collision_index_ = {}
  /\ Len(default_coulomb_friction_) = n
  /\ \A r \in C :
       /\ geometry_id_to_collision_index_[r.id] =
            Cardinality({q \in C : q.order < r.order})
       /\ geometry_id_to_collision_index_[r.id] \in 0 .. n - 1
       /\ default_coulomb_friction_[geometry_id_to_collision_index_[r.id] + 1] =
            r.friction

C11_Witness ==
  \E r1 \in issued, r2 \in issued :
    /\ r1.role = "collision" /\ r2.role = "collision"
    /\ r1.order < r2.order
    /\ r1.friction # r2.friction
    /\ geometry_id_to_collision_index_[r2.id] = 1

\* C12: the number of bodies equals the length of the per-body visual list and
\* of the per-body collision list, from construction on and through every
\* body addition and geometry registration.
C12_PerBodyListsInStep ==
  /\ Len(visual_geometries_) = num_bodies
  /\ Len(collision_geometries_) = num_bodies

C12_Witness ==
  /\ num_bodies = 3
  /\ Len(visual_geometries_[2]) > 0
  /\ Len(collision_geometries_[3]) > 0

\* C13: after a successful Finalize a plant with time_step > 0 has exactly one
\* discrete-state group of size nq + nv, one periodic update of period
\* time_step and no continuous state; a plant with time_step = 0 has no
\* discrete state and one continuous state of size nq + nv, split into nq
\* positions, nv velocities and 0 miscellaneous.
C13_StateDeclaration ==
  FinalizeSucceeded =>
    IF time_step_ > 0
      THEN /\ sys.discrete_groups = <<num_positions + num_velocities>>
           /\ sys.periodic = <<time_step_>>
           /\ sys.continuous = <<>>
      ELSE /\ sys.discrete_groups = <<>>
           /\ sys.periodic = <<>>
           /\ sys.continuous = <<[size |-> num_positions + num_velocities,
                                  nq |-> num_positions, nv |-> num_velocities,
                                  nz |-> 0]>>

C13_Witness ==
  /\ FinalizeSucceeded
  /\ time_step_ > 0
  /\ num_joints > 0
  /\ sys.discrete_groups = <<2>>

\* SpecActuation: continuous plants without geometry, with up to two actuated
\* model instances, Finalize and the actuation port accessors.
ActMaxInstances == 3   \* SpecActuation: model instances, world and default included
ActMaxBodies == 3      \* SpecActuation: bodies in the tree, the world included
ActMaxJoints == 2      \* SpecActuation: joints
ActMaxActuators == 2   \* SpecActuation: joint actuators

ActBounds ==
  /\ num_model_instances <= ActMaxInstances
  /\ num_bodies <= ActMaxBodies
  /\ num_joints <= ActMaxJoints
  /\ num_actuators <= ActMaxActuators

NextActuation ==
  \/ AddModelInstance /\ ActBounds'
  \/ \E i \in 1 .. 3 : AddRigidBody(i) /\ ActBounds'
  \/ \E c \in BodyArgs : AddJoint(world_index, c) /\ ActBounds'
  \/ \E j \in 1 .. 3 : AddJointActuator(j) /\ ActBounds'
  \/ Finalize(Null)
  \/ get_actuation_input_port
  \/ \E i \in InstanceArgs : get_actuation_input_port_of(i)

SpecActuation == InitContinuous /\ [][NextActuation]_vars

ActuatedInstances == {i \in Instances : num_actuated_dofs_of(i) > 0}

\* C14: after Finalize, get_actuation_input_port() succeeds if and only if
\* exactly one model instance has actuated dofs, and then returns the actuation
\* port of that instance (the only actuation port declared); with no actuator
\* and with two or more actuated instances it fails with InvalidArgument.
C14_ConvenienceActuationPort ==
  [][(FinalizeSucceeded /\ get_actuation_input_port) =>
       IF Cardinality(ActuatedInstances) = 1
         THEN /\ last'.err = "ok"
              /\ \A i \in ActuatedInstances :
                   last'.ret = ports.instance_actuation_ports_[i + 1]
              /\ last'.ret = 0
         ELSE /\ last'.err = "InvalidArgument"
              /\ last'.method = "get_actuation_input_port"]_vars

C14_Witness ==
  /\ FinalizeSucceeded
  /\ Cardinality(ActuatedInstances) = 2
  /\ last.op = "get_actuation_input_port()"
  /\ last.err = "InvalidArgument"

C14_WitnessOne ==
  /\ FinalizeSucceeded
  /\ ActuatedInstances = {2}
  /\ last.op = "get_actuation_input_port()"
  /\ last.err = "ok"

\* SpecContact: plants with collision geometry on one engine, the contact
\* parameters set before and after Finalize, on continuous and discrete
\* plants.
CtMaxBodies == 2       \* SpecContact: bodies in the tree, the world included
CtMaxGeometries == 1   \* SpecContact: geometries registered
StictionArgs == {1, 2}

CtBounds == num_bodies <= CtMaxBodies /\ num_geometries <= CtMaxGeometries

NextContact ==
  \/ AddRigidBody(1) /\ CtBounds'
  \/ RegisterAsSourceForSceneGraph(1)
  \/ \E b \in BodyArgs : RegisterCollisionGeometry(b, 1, 1) /\ CtBounds'
  \/ \E v \in StictionArgs : set_stiction_tolerance(v)
  \/ \E a \in AllowanceArgs : set_penetration_allowance(a)
  \/ Finalize(1)
  \/ \E c \in Contexts, ub \in NullDereference : DoCalcTimeDerivatives(c, ub)
  \/ \E c \in Contexts, ub \in NullDereference, info \in SolverInfo :
       DoCalcDiscreteVariableUpdates(c, ub, info)
  \/ \E c \in Contexts : CopyContinuousStateOut(c)
  \/ \E c \in Contexts : CopyContinuousStateOut_of(1, c)
  \/ \E c \in Contexts : CopyGeneralizedContactForcesOut(1, c)
  \/ \E c \in Contexts : CalcContactResultsOutput(c)
  \/ \E c \in Contexts : CalcFramePoseOutput(c)

SpecContact == Init /\ [][NextContact]_vars

\* C15: a successful Finalize of a plant with at least one collision geometry
\* leaves the penalty parameters computed from the default penetration
\* allowance, and the stiction tolerance set: the default when the user never
\* set one, the user's value otherwise; with no collision geometry Finalize
\* applies neither default.
C15_ContactDefaultsAtFinalize ==
  [][\A sg \in EngineArgs :
       (Finalize(sg) /\ last'.err = "ok") =>
         IF num_collision_geometries > 0
           THEN /\ penalty_method_contact_parameters_'.allowance =
                     DefaultPenetrationAllowance
                /\ stribeck_model_'.stiction_tolerance =
                     IF stribeck_model_.stiction_tolerance = Invalid
                       THEN DefaultStictionTolerance
                       ELSE stribeck_model_.stiction_tolerance
                /\ stribeck_model_'.stiction_tolerance > 0
           ELSE UNCHANGED <<penalty_method_contact_parameters_, stribeck_model_>>]_vars

C15_Witness ==
  /\ FinalizeSucceeded
  /\ last.op = "Finalize"
  /\ num_collision_geometries > 0
  /\ penalty_method_contact_parameters_.allowance = DefaultPenetrationAllowance
  /\ stribeck_model_.stiction_tolerance = 2

\* C16: on a finalized plant with collision geometry, a contact computation
\* (DoCalcTimeDerivatives of a continuous plant, DoCalcDiscreteVariableUpdates
\* of a discrete one) on a context whose geometry query input port is not
\* connected fails with QueryPortDisconnected, without evaluating the query
\* object.
C16_QueryPortDisconnected ==
  [][\A c \in Contexts, ub \in NullDereference, info \in SolverInfo :
       (/\ FinalizeSucceeded
        /\ num_collision_geometries > 0
        /\ ~c.query_connected
        /\ \/ ~is_discrete /\ DoCalcTimeDerivatives(c, ub)
           \/ DoCalcDiscreteVariableUpdates(c, ub, info)) =>
         /\ last'.err = "QueryPortDisconnected"
         /\ ~CalcPointPairPenetrations(c, ub).evaluated]_vars

EvaluationOps ==
  {"DoCalcTimeDerivatives", "DoCalcDiscreteVariableUpdates", "CopyContinuousStateOut()",
   "CopyContinuousStateOut(instance)", "CopyGeneralizedContactForcesOut",
   "CalcContactResultsOutput", "CalcFramePoseOutput"}

\* C17 (as stated): the evaluation routines of a finalized plant modify no
\* state held by the plant other than the two kinematics caches and the
\* ContactResults staging buffer.
C17_OnlyCachesAndResults ==
  [][last'.op \in EvaluationOps =>
       UNCHANGED <<treeVars, time_step_, sourceVars, registryVars, contactVars,
                   ports, sys>>]_vars

\* C17 (amended): the evaluation routines of a finalized plant modify no state
\* held by the plant other than the two kinematics caches, the ContactResults
\* staging buffer and the problem data of the implicit Stribeck solver; the
\* solver and the staging buffer are written by DoCalcDiscreteVariableUpdates
\* only.
C17_EvaluationFrame ==
  [][last'.op \in EvaluationOps =>
       /\ UNCHANGED <<treeVars, time_step_, sourceVars, registryVars,
                      penalty_method_contact_parameters_, stribeck_model_, ports, sys>>
       /\ implicit_stribeck_solver_' =
            [implicit_stribeck_solver_ EXCEPT
               !.problem = implicit_stribeck_solver_'.problem]
       /\ last'.op # "DoCalcDiscreteVariableUpdates" =>
            UNCHANGED <<implicit_stribeck_solver_, contact_results_>>]_vars

C17_Witness ==
  /\ last.op = "DoCalcDiscreteVariableUpdates"
  /\ last.err = "ok"
  /\ implicit_stribeck_solver_.problem = [x |-> 2, contacts |-> 1]
  /\ contact_results_ = [x |-> 2, contacts |-> 1]
  /\ pc_.x = 2

\* ------------------------------------------------ numerical routines
\* Vector3 arithmetic.
Zero3 == <<0, 0, 0>>
Add3(a, b) == <<a[1] + b[1], a[2] + b[2], a[3] + b[3]>>
Sub3(a, b) == <<a[1] - b[1], a[2] - b[2], a[3] - b[3]>>
Scale3(k, a) == <<k * a[1], k * a[2], k * a[3]>>
Dot3(a, b) == a[1] * b[1] + a[2] * b[2] + a[3] * b[3]
Cross3(a, b) ==
  <<a[2] * b[3] - a[3] * b[2], a[3] * b[1] - a[1] * b[3], a[1] * b[2] - a[2] * b[1]>>
UnitAxes == {<<1, 0, 0>>, <<0, 1, 0>>, <<0, 0, 1>>,
             <<0 - 1, 0, 0>>, <<0, 0 - 1, 0>>, <<0, 0, 0 - 1>>}

\* A 3 x nv Jacobian is the sequence of its columns; J * v and a' * J.
RECURSIVE JacobianTimes(_, _)
JacobianTimes(J, v) ==
  IF Len(J) = 0 THEN Zero3
  ELSE Add3(Scale3(Head(v), Head(J)), JacobianTimes(Tail(J), Tail(v)))
RowTimes(row, v) == SumOver([k \in 1 .. Len(row) |-> row[k] * v[k]], 1 .. Len(row))

\* Mutant: the row is built from Jv_WBc - Jv_WAc, as the tangent rows are.
NormalRow_BMinusA(nhat_BA_W, Jv_WAc, Jv_WBc) ==
  [k \in 1 .. Len(Jv_WAc) |-> Dot3(nhat_BA_W, Sub3(Jv_WBc[k], Jv_WAc[k]))]

\* N.row(icontact) = nhat_BA_W.transpose() * (Jv_WAc - Jv_WBc)
NormalRow(nhat_BA_W, Jv_WAc, Jv_WBc) ==
  [k \in 1 .. Len(Jv_WAc) |-> Dot3(nhat_BA_W, Sub3(Jv_WAc[k], Jv_WBc[k]))]

\* CalcNormalSeparationVelocitiesJacobian(context, point_pairs_set): one row
\* per point pair; the geometric Jacobians of the contact point as moving with
\* A and with B are what the tree returns for the pair.
CalcNormalSeparationVelocitiesJacobian(point_pairs_set) ==
  [icontact \in 1 .. Len(point_pairs_set) |->
     NormalRow(point_pairs_set[icontact].nhat_BA_W,
               point_pairs_set[icontact].Jv_WAc,
               point_pairs_set[icontact].Jv_WBc)]

\* SpecJacobian: one point pair between bodies whose contact points move with
\* two generalized velocities, each along a coordinate axis or not at all.
JacMaxSpeed == 1   \* SpecJacobian: magnitude of a generalized velocity
JacobianColumns == UnitAxes \cup {Zero3}
Jacobians == [1 .. 2 -> JacobianColumns]
JacobianArgs ==
  [point_pairs_set : {<<pp>> : pp \in [nhat_BA_W : UnitAxes, Jv_WAc : Jacobians,
                                        Jv_WBc : Jacobians]},
   v : [1 .. 2 -> (0 - JacMaxSpeed) .. JacMaxSpeed]]

InitJacobian ==
  /\ PlantInit
  /\ time_step_ = 0
  /\ calc \in [routine : {"CalcNormalSeparationVelocitiesJacobian"},
               args : JacobianArgs, value : {<<>>}]

CallNormalJacobian ==
  /\ calc.routine = "CalcNormalSeparationVelocitiesJacobian"
  /\ calc' = [calc EXCEPT
                !.value = <<CalcNormalSeparationVelocitiesJacobian(
                              calc.args.point_pairs_set)>>]
  /\ UNCHANGED <<treeVars, time_step_, contact_results_, sourceVars, registryVars,
                 contactVars, declVars, sgVars, last, issued>>

SpecJacobian == InitJacobian /\ [][CallNormalJacobian]_vars

\* The velocity of the contact point of B relative to that of A, along the
\* normal that points from B into A: positive when the bodies approach.
ApproachSpeed(pp, v) ==
  Dot3(Sub3(JacobianTimes(pp.Jv_WBc, v), JacobianTimes(pp.Jv_WAc, v)), pp.nhat_BA_W)
JacobianReturned ==
  calc.routine = "CalcNormalSeparationVelocitiesJacobian" /\ calc.value # <<>>

\* C18 (as stated): for every point pair and every generalized velocity under
\* which A and B approach at the contact, the pair's entry of Jn v is strictly
\* positive.
C18_ApproachingPositive ==
  JacobianReturned =>
    \A i \in 1 .. Len(calc.args.point_pairs_set) :
      ApproachSpeed(calc.args.point_pairs_set[i], calc.args.v) > 0 =>
        RowTimes(calc.value[1][i], calc.args.v) > 0

\* C18 (amended): the pair's entry of Jn v is minus the approach speed: it is
\* strictly negative when A and B approach at the contact and strictly
\* positive when they separate.
C18_SeparationVelocity ==
  JacobianReturned =>
    \A i \in 1 .. Len(calc.args.point_pairs_set) :
      RowTimes(calc.value[1][i], calc.args.v) =
        0 - ApproachSpeed(calc.args.point_pairs_set[i], calc.args.v)

C18_Witness ==
  /\ JacobianReturned
  /\ ApproachSpeed(calc.args.point_pairs_set[1], calc.args.v) = 2
  /\ RowTimes(calc.value[1][1], calc.args.v) = 0 - 2

\* ------------------------------------------------ penalty-method forces
\* SpatialForce: a torque and a force applied at a point. Shift(p_BpBq) moves
\* the application point from Bp to Bq.
SpatialForce(tau, f) == [tau |-> tau, f |-> f]
ZeroForce == SpatialForce(Zero3, Zero3)
Shift(F, p_BpBq) == SpatialForce(Sub3(F.tau, Cross3(p_BpBq, F.f)), F.f)
Negate(F) == SpatialForce(Sub3(Zero3, F.tau), Sub3(Zero3, F.f))
PlusEquals(F, G) == SpatialForce(Add3(F.tau, G.tau), Add3(F.f, G.f))
Sqrt(n) == CHOOSE r \in 0 .. n : r * r = n
SquaredNorm(a) == Dot3(a, a)
Over3(a, k) == <<a[1] \div k, a[2] \div k, a[3] \div k>>
Nullptr == <<>>

\* Mutant: the force on B is the force on A, not its opposite.
ApplyContactForce_SameSign(array, pair, F_AC_W, p_CoAo_W, p_CoBo_W) ==
  LET a == pair.bodyA_index + 1
      b == pair.bodyB_index + 1
      onA == IF pair.bodyA_index # world_index
             THEN [array EXCEPT ![a] = PlusEquals(@, Shift(F_AC_W, p_CoAo_W))]
             ELSE array
  IN  IF pair.bodyB_index # world_index
      THEN [onA EXCEPT ![b] = PlusEquals(@, Shift(F_AC_W, p_CoBo_W))]
      ELSE onA

\* Lines 731-743: the force on A shifted to Ao is added to A's slot and the
\* opposite force shifted to Bo is added to B's slot; the world has no slot
\* written. A body's node index is its index.
ApplyContactForce(array, pair, F_AC_W, p_CoAo_W, p_CoBo_W) ==
  LET a == pair.bodyA_index + 1
      b == pair.bodyB_index + 1
      onA == IF pair.bodyA_index # world_index
             THEN [array EXCEPT ![a] = PlusEquals(@, Shift(F_AC_W, p_CoAo_W))]
             ELSE array
  IN  IF pair.bodyB_index # world_index
      THEN [onA EXCEPT ![b] = PlusEquals(@, Negate(Shift(F_AC_W, p_CoBo_W)))]
      ELSE onA

\* const T kNonZeroSqd = 1e-14 * 1e-14, in units of (1e-14 m/s)^2.
kNonZeroSqd == 1

\* Mutant: the force is applied whatever the sign of fn_AC.
ContactForceOfPair_NoGate(array, pair, pc, parameters) ==
  LET x == pair.depth
      nhat_BA_W == pair.nhat_BA_W
      p_WC == Over3(Add3(pair.p_WCa, pair.p_WCb), 2)
      p_CoAo_W == Sub3(pc[pair.bodyA_index + 1], p_WC)
      p_CoBo_W == Sub3(pc[pair.bodyB_index + 1], p_WC)
      v_AcBc_W == pair.v_AcBc_W
      vn == Dot3(v_AcBc_W, nhat_BA_W)
      fn_AC == parameters.stiffness * x * (1 + parameters.damping * vn)
      fn_AC_W == Scale3(fn_AC, nhat_BA_W)
      vt_AcBc_W == Sub3(v_AcBc_W, Scale3(vn, nhat_BA_W))
      vt_squared == SquaredNorm(vt_AcBc_W)
      ft_AC_W == IF vt_squared > kNonZeroSqd
                 THEN Scale3(pair.mu_stribeck * fn_AC,
                             Over3(vt_AcBc_W, Sqrt(vt_squared)))
                 ELSE Zero3
      F_AC_W == SpatialForce(Zero3, Add3(fn_AC_W, ft_AC_W))
  IN  IF array # Nullptr
      THEN ApplyContactForce(array, pair, F_AC_W, p_CoAo_W, p_CoBo_W)
      ELSE array

\* The body of the loop over the point pairs, lines 652-745. Speeds are in
\* units of 1e-14 m/s, so that the threshold on the squared tangential speed is 1.
ContactForceOfPair(array, pair, pc, parameters) ==
  LET x == pair.depth
      nhat_BA_W == pair.nhat_BA_W
      p_WC == Over3(Add3(pair.p_WCa, pair.p_WCb), 2)
      p_CoAo_W == Sub3(pc[pair.bodyA_index + 1], p_WC)
      p_CoBo_W == Sub3(pc[pair.bodyB_index + 1], p_WC)
      v_AcBc_W == pair.v_AcBc_W
      vn == Dot3(v_AcBc_W, nhat_BA_W)
      fn_AC == parameters.stiffness * x * (1 + parameters.damping * vn)
      fn_AC_W == Scale3(fn_AC, nhat_BA_W)
      vt_AcBc_W == Sub3(v_AcBc_W, Scale3(vn, nhat_BA_W))
      vt_squared == SquaredNorm(vt_AcBc_W)
      ft_AC_W == IF vt_squared > kNonZeroSqd
                 THEN Scale3(pair.mu_stribeck * fn_AC,
                             Over3(vt_AcBc_W, Sqrt(vt_squared)))
                 ELSE Zero3
      F_AC_W == SpatialForce(Zero3, Add3(fn_AC_W, ft_AC_W))
  IN  IF fn_AC > 0 /\ array # Nullptr
      THEN ApplyContactForce(array, pair, F_AC_W, p_CoAo_W, p_CoBo_W)
      ELSE array

RECURSIVE ContactForcesOfPairs(_, _, _, _)
ContactForcesOfPairs(array, point_pairs, pc, parameters) ==
  IF Len(point_pairs) = 0 THEN array
  ELSE ContactForcesOfPairs(ContactForceOfPair(array, Head(point_pairs), pc, parameters),
                            Tail(point_pairs), pc, parameters)

\* CalcAndAddContactForcesByPenaltyMethod(context, pc, vc, point_pairs,
\* F_BBo_W_array): the array after the call.
CalcAndAddContactForcesByPenaltyMethod(a) ==
  IF a.num_collision_geometries = 0 THEN a.F_BBo_W_array
  ELSE ContactForcesOfPairs(a.F_BBo_W_array, a.point_pairs, a.pc, a.parameters)

\* SpecPenalty: the world and two bodies at fixed poses, point pairs between
\* any two of them, relative velocities whose tangential part lies along an
\* axis (so that its norm is an integer), and the Stribeck coefficient the
\* friction model returned for the pair.
PenMaxContacts == 1   \* SpecPenalty: point pairs in one call
PenaltyBodies == 0 .. 2
PenaltyPoses == <<Zero3, <<1, 0, 0>>, <<0, 2, 1>> >>
PenaltyNormals == {<<1, 0, 0>>, <<0, 0, 0 - 1>>}
PenaltyVelocities ==
  {Zero3, <<1, 0, 0>>, <<0 - 2, 0, 0>>, <<0, 1, 0>>, <<0, 0, 0 - 2>>}
PenaltyPoints ==
  {[p_WCa |-> Zero3, p_WCb |-> Zero3], [p_WCa |-> <<1, 2, 0>>, p_WCb |-> <<1, 0, 2>>]}
PointPairs ==
  {pp \in [bodyA_index : PenaltyBodies, bodyB_index : PenaltyBodies, depth : {0, 1},
           nhat_BA_W : PenaltyNormals, v_AcBc_W : PenaltyVelocities,
           mu_stribeck : {0, 1}, points : PenaltyPoints] :
     pp.bodyA_index # pp.bodyB_index}
PointPair(pp) ==
  [bodyA_index |-> pp.bodyA_index, bodyB_index |-> pp.bodyB_index,
   depth |-> pp.depth, nhat_BA_W |-> pp.nhat_BA_W, v_AcBc_W |-> pp.v_AcBc_W,
   mu_stribeck |-> pp.mu_stribeck, p_WCa |-> pp.points.p_WCa,
   p_WCb |-> pp.points.p_WCb]
RECURSIVE PointPairLists(_)
PointPairLists(n) ==
  IF n = 0 THEN {<<>>}
  ELSE PointPairLists(n - 1) \cup
       {Append(l, PointPair(pp)) : l \in {m \in PointPairLists(n - 1) : Len(m) = n - 1},
                                   pp \in PointPairs}
ZeroArray == [b \in 1 .. 3 |-> ZeroForce]
LoadedArray == [b \in 1 .. 3 |-> SpatialForce(<<b, 0, 1>>, <<0, 0 - b, 2>>)]
PenaltyArgs ==
  {a \in [num_collision_geometries : {0, 2}, point_pairs : PointPairLists(PenMaxContacts),
          pc : {PenaltyPoses}, parameters : {[stiffness |-> 1, damping |-> 1]},
          F_BBo_W_array : {Nullptr, ZeroArray, LoadedArray}] :
     a.num_collision_geometries = 0 => a.point_pairs = <<>>}

InitPenalty ==
  /\ PlantInit
  /\ time_step_ = 0
  /\ calc \in [routine : {"CalcAndAddContactForcesByPenaltyMethod"},
               args : PenaltyArgs, value : {<<>>}]

CallPenaltyMethod ==
  /\ calc.routine = "CalcAndAddContactForcesByPenaltyMethod"
  /\ calc' = [calc EXCEPT !.value = <<CalcAndAddContactForcesByPenaltyMethod(calc.args)>>]
  /\ UNCHANGED <<treeVars, time_step_, contact_results_, sourceVars, registryVars,
                 contactVars, declVars, sgVars, last, issued>>

SpecPenalty == InitPenalty /\ [][CallPenaltyMethod]_vars

PenaltyReturned ==
  /\ calc.routine = "CalcAndAddContactForcesByPenaltyMethod"
  /\ calc.value # <<>>
  /\ calc.args.F_BBo_W_array # Nullptr
\* What the call added to a slot.
Added(b) ==
  SpatialForce(Sub3(calc.value[1][b + 1].tau, calc.args.F_BBo_W_array[b + 1].tau),
               Sub3(calc.value[1][b + 1].f, calc.args.F_BBo_W_array[b + 1].f))
InContact(b) ==
  \E i \in 1 .. Len(calc.args.point_pairs) :
    b \in {calc.args.point_pairs[i].bodyA_index, calc.args.point_pairs[i].bodyB_index}
ContactPoint(pair) == Over3(Add3(pair.p_WCa, pair.p_WCb), 2)

\* C19: for a contact between two non-world bodies the forces added to A's
\* slot and to B's slot are equal and opposite once both are shifted to the
\* contact point C (and, over all the contacts of a call none of which
\* involves the world, the added forces shifted to the world origin sum to
\* zero); nothing is added to the world's slot; the slots of bodies in no
\* contact are unchanged; and the call adds to the array: the result is the
\* array it was given plus the result for an array of zeros.
C19_EqualOppositeAdditive ==
  PenaltyReturned =>
    LET a == calc.args
        pairs == a.point_pairs
        free == \A i \in 1 .. Len(pairs) :
                  world_index \notin {pairs[i].bodyA_index, pairs[i].bodyB_index}
    IN  /\ (Len(pairs) = 1 /\ free) =>
             LET C == ContactPoint(pairs[1])
                 A == pairs[1].bodyA_index
                 B == pairs[1].bodyB_index
             IN  Shift(Added(A), Sub3(C, a.pc[A + 1])) =
                   Negate(Shift(Added(B), Sub3(C, a.pc[B + 1])))
        /\ free =>
             PlusEquals(Shift(Added(1), Sub3(Zero3, a.pc[2])),
                        Shift(Added(2), Sub3(Zero3, a.pc[3]))) = ZeroForce
        /\ Added(world_index) = ZeroForce
        /\ \A b \in PenaltyBodies : ~InContact(b) => Added(b) = ZeroForce
        /\ \A b \in PenaltyBodies :
             Added(b) =
               CalcAndAddContactForcesByPenaltyMethod(
                 [a EXCEPT !.F_BBo_W_array = ZeroArray])[b + 1]

C19_Witness ==
  /\ PenaltyReturned
  /\ calc.args.F_BBo_W_array = LoadedArray
  /\ Len(calc.args.point_pairs) = 1
  /\ calc.args.point_pairs[1].bodyA_index = 2
  /\ calc.args.point_pairs[1].bodyB_index = 1
  /\ calc.args.point_pairs[1].mu_stribeck = 1
  /\ Added(2).f = <<1, 0, 0 - 1>>
  /\ Added(1).f = <<0 - 1, 0, 1>>
  /\ Added(1).tau # Zero3

\* ------------------------------------------------ Stribeck friction model
\* Exact rational arithmetic: a rational is a fraction in lowest terms with a
\* positive denominator.
RECURSIVE Gcd(_, _)
Gcd(a, b) == IF b = 0 THEN a ELSE Gcd(b, a % b)
Rat(n, d) ==
  LET g == Gcd(IF n < 0 THEN 0 - n ELSE n, d) IN [num |-> n \div g, den |-> d \div g]
Whole(n) == Rat(n, 1)
RAdd(a, b) == Rat(a.num * b.den + b.num * a.den, a.den * b.den)
RSub(a, b) == Rat(a.num * b.den - b.num * a.den, a.den * b.den)
RMul(a, b) == Rat(a.num * b.num, a.den * b.den)
RInverse(a) == Rat(a.den, a.num)
RLeq(a, b) ==
  LET g == Gcd(a.den, b.den) IN a.num * (b.den \div g) <= b.num * (a.den \div g)

\* step5(x) = x3 * (10 + x * (6 * x - 15))
step5(x) ==
  LET x3 == RMul(RMul(x, x), x)
  IN  RMul(x3, RAdd(Whole(10), RMul(x, RSub(RMul(Whole(6), x), Whole(15)))))

\* Line 1369, mu_s * step5(v), for v below 1.
RisingBranch(v, mu_s) == RMul(mu_s, step5(v))

\* Mutant: the falling branch passes v - 1 to step5 without halving it.
FallingBranch_NotHalved(v, mu_s, mu_d) ==
  RSub(mu_s, RMul(RSub(mu_s, mu_d), step5(RSub(v, Whole(1)))))

\* Line 1367, mu_s - (mu_s - mu_d) * step5((v - 1) / 2), for v in [1, 3).
FallingBranch(v, mu_s, mu_d) ==
  RSub(mu_s, RMul(RSub(mu_s, mu_d), step5(RMul(RSub(v, Whole(1)), Rat(1, 2)))))

\* StribeckModel::ComputeFrictionCoefficient(speed_BcAc, friction)
ComputeFrictionCoefficient(speed_BcAc, friction, inv_v_stiction_tolerance_) ==
  LET mu_d == friction.dynamic_friction
      mu_s == friction.static_friction
      v == RMul(speed_BcAc, inv_v_stiction_tolerance_)
  IN  IF RLeq(Whole(3), v) THEN mu_d
      ELSE IF RLeq(Whole(1), v) THEN FallingBranch(v, mu_s, mu_d)
      ELSE RisingBranch(v, mu_s)

\* SpecStribeck: stiction tolerances in halves, speeds in quarters up to past
\* three times the largest tolerance, friction coefficients in halves with
\* the dynamic one no larger than the static one.
StrMaxTolerance == 2   \* SpecStribeck: largest stiction tolerance, in halves
Tolerances == {Rat(s, 2) : s \in 1 .. StrMaxTolerance}
Speeds == {Rat(j, 4) : j \in 0 .. 6 * StrMaxTolerance + 2}
CoulombFrictions ==
  {f \in [static_friction : {Rat(a, 2) : a \in 0 .. 3},
          dynamic_friction : {Rat(b, 2) : b \in 0 .. 3}] :
     RLeq(f.dynamic_friction, f.static_friction)}
StribeckArgs ==
  [speed_BcAc : Speeds, friction : CoulombFrictions,
   inv_v_stiction_tolerance_ : {RInverse(t) : t \in Tolerances}]

InitStribeck ==
  /\ PlantInit
  /\ time_step_ = 0
  /\ calc \in [routine : {"ComputeFrictionCoefficient"}, args : StribeckArgs,
               value : {<<>>}]

CallStribeckModel ==
  /\ calc.routine = "ComputeFrictionCoefficient"
  /\ calc' = [calc EXCEPT
                !.value = <<ComputeFrictionCoefficient(
                              calc.args.speed_BcAc, calc.args.friction,
                              calc.args.inv_v_stiction_tolerance_)>>]
  /\ UNCHANGED <<treeVars, time_step_, contact_results_, sourceVars, registryVars,
                 contactVars, declVars, sgVars, last, issued>>

SpecStribeck == InitStribeck /\ [][CallStribeckModel]_vars

StribeckReturned == calc.routine = "ComputeFrictionCoefficient" /\ calc.value # <<>>

\* C20: the coefficient is 0 at speed 0, mu_s at speed v*, mu_d at every
\* speed >= 3 v*; at v* and at 3 v* the value agrees with the value the branch
\* below the boundary takes there (the branches are polynomials, so this is
\* continuity); and no larger speed in [v*, 3 v*] has a larger coefficient.
C20_StribeckCurve ==
  StribeckReturned =>
    LET speed == calc.args.speed_BcAc
        friction == calc.args.friction
        inv == calc.args.inv_v_stiction_tolerance_
        v_stiction == RInverse(inv)
        three == RMul(Whole(3), v_stiction)
        mu == calc.value[1]
    IN  /\ speed = Whole(0) => mu = Whole(0)
        /\ speed = v_stiction =>
             /\ mu = friction.static_friction
             /\ mu = RisingBranch(Whole(1), friction.static_friction)
        /\ RLeq(three, speed) => mu = friction.dynamic_friction
        /\ speed = three =>
             mu = FallingBranch(Whole(3), friction.static_friction,
                                friction.dynamic_friction)
        /\ (RLeq(v_stiction, speed) /\ RLeq(speed, three)) =>
             \A faster \in Speeds :
               (RLeq(speed, faster) /\ RLeq(faster, three)) =>
                 RLeq(ComputeFrictionCoefficient(faster, friction, inv), mu)

C20_Witness ==
  /\ StribeckReturned
  /\ calc.args.inv_v_stiction_tolerance_ = Whole(2)
  /\ calc.args.speed_BcAc = Whole(1)
  /\ calc.args.friction = [static_friction |-> Whole(1), dynamic_friction |-> Rat(1, 2)]
  /\ calc.value[1] = Rat(3, 4)

\* ------------------------------------------------ geometry frames and poses
\* SpecFrames: a continuous plant whose bodies, the world included, get
\* visual and collision geometries on one engine, is finalized, and has its
\* geometry-pose output evaluated.
FrmMaxBodies == 3       \* SpecFrames: bodies in the tree, the world included
FrmMaxGeometries == 3   \* SpecFrames: geometries registered

FrmBounds == num_bodies <= FrmMaxBodies /\ num_geometries <= FrmMaxGeometries

NextFrames ==
  \/ AddRigidBody(1) /\ FrmBounds'
  \/ RegisterAsSourceForSceneGraph(1)
  \/ \E b \in BodyArgs : RegisterVisualGeometry(b, 1) /\ FrmBounds'
  \/ \E b \in BodyArgs : RegisterCollisionGeometry(b, 1, 1) /\ FrmBounds'
  \/ Finalize(1)
  \/ \E c \in Contexts : CalcFramePoseOutput(c)

SpecFrames == InitContinuous /\ [][NextFrames]_vars

\* The bodies that should have a frame: not the world, with a geometry.
FramedBodies == {b \in Bodies \ {world_index} : \E g \in issued : g.body = b}

\* C21: a body has a registered geometry frame if and only if it is not the
\* world body and at least one geometry was registered on it; the engine was
\* asked to register exactly one frame for such a body, whatever the number
\* of its geometries, and none for any other body; and on a finalized
\* source-registered plant the geometry-pose output, as allocated and as
\* calculated, holds exactly one entry per such frame, the pose X_WB of the
\* frame's body, and so none for the world.
C21_FramesAndPoses ==
  /\ DOMAIN body_index_to_frame_id_ = FramedBodies
  /\ \A b \in Bodies :
       Cardinality({f \in sg_frames : f.body = b}) = IF b \in FramedBodies THEN 1 ELSE 0
  /\ \A b \in FramedBodies :
       \E f \in sg_frames : f.body = b /\ f.frame = body_index_to_frame_id_[b]
  /\ (FinalizeSucceeded /\ geometry_source_is_registered) =>
       ports.pose_frame_ids = {body_index_to_frame_id_[b] : b \in FramedBodies}
  /\ (last.op = "CalcFramePoseOutput" /\ last.err = "ok") =>
       /\ DOMAIN last.set = {body_index_to_frame_id_[b] : b \in FramedBodies}
       /\ Cardinality(DOMAIN last.set) = Cardinality(FramedBodies)
       /\ \A b \in FramedBodies :
            last.set[body_index_to_frame_id_[b]] = [body |-> b, x |-> last.ret]
       /\ \A frame \in DOMAIN last.set : last.set[frame].body # world_index

C21_Witness ==
  /\ last.op = "CalcFramePoseOutput"
  /\ last.err = "ok"
  /\ num_bodies = 3
  /\ Cardinality({g \in issued : g.body = 1}) = 2
  /\ Cardinality({g \in issued : g.body = world_index}) = 1
  /\ FramedBodies = {1}
  /\ DOMAIN last.set = {body_index_to_frame_id_[1]}

\* ------------------------------------------------ Finalize, step by step
\* The statements of Finalize and FinalizePlantOnly, in execution order. In
\* SpecFinalizeOrder a call of Finalize runs them one at a time; calc holds
\* the call: its argument and the statements done so far.

\* Mutant: the solver is made and given the tolerance before the defaults of
\* the contact parameters are applied.
FinalizeOrder_SolverBeforeDefaults ==
  <<"model_->Finalize", "FilterAdjacentBodies", "ExcludeCollisionsWithVisualGeometry",
    "DeclareState", "DeclarePorts", "DeclareSceneGraphPorts", "DeclareCacheEntries",
    "scene_graph_ = nullptr", "implicit_stribeck_solver_",
    "set_penetration_allowance", "set_stiction_tolerance", "return">>

FinalizeOrder ==
  <<"model_->Finalize", "FilterAdjacentBodies", "ExcludeCollisionsWithVisualGeometry",
    "DeclareState", "DeclarePorts", "DeclareSceneGraphPorts", "DeclareCacheEntries",
    "scene_graph_ = nullptr", "set_penetration_allowance", "set_stiction_tolerance",
    "implicit_stribeck_solver_", "return">>

InFinalize ==
  /\ calc.routine = "Finalize"
  /\ IF Len(calc.value) = 0 THEN TRUE
     ELSE calc.value[Len(calc.value)] \notin {"return", "throw"}
AtStatement(statement) ==
  InFinalize /\ FinalizeOrder[Len(calc.value) + 1] = statement
Done(statement) == calc' = [calc EXCEPT !.value = Append(@, statement)]
Thrown(e) ==
  /\ calc' = [calc EXCEPT !.value = Append(@, "throw")]
  /\ last' = Outcome("Finalize", e, Invalid, NoSet)
FinalizeArg == calc.args[1]
\* What no statement of Finalize touches.
finalizeFrame ==
  <<num_model_instances, body_instance, joints, actuators, time_step_, contact_results_,
    source_id_, registryVars, issued, sg_sources, sg_frames, sg_geometries>>

\* The caller enters Finalize(scene_graph).
FinalizeCall(scene_graph) ==
  /\ Alive
  /\ ~InFinalize
  /\ calc' = [routine |-> "Finalize", args |-> <<scene_graph>>, value |-> <<>>]
  /\ UNCHANGED <<treeVars, time_step_, contact_results_, sourceVars, registryVars,
                 contactVars, declVars, sgVars, last, issued>>

\* model_->Finalize();
TreeFinalizeStatement ==
  /\ AtStatement("model_->Finalize")
  /\ IF TreeFinalizeError # Ok
       THEN Thrown(TreeFinalizeError) /\ UNCHANGED topology_is_valid
       ELSE Done("model_->Finalize") /\ topology_is_valid' = TRUE /\ UNCHANGED last
  /\ UNCHANGED <<finalizeFrame, scene_graph_, contactVars, declVars, sg_within,
                 sg_between, sg_calls>>

\* FilterAdjacentBodies(scene_graph);
FilterAdjacentBodiesStatement ==
  /\ AtStatement("FilterAdjacentBodies")
  /\ LET e == FilterAdjacentBodiesError(FinalizeArg) IN
     IF e # Ok
       THEN Thrown(e) /\ UNCHANGED <<sg_between, sg_calls>>
       ELSE /\ Done("FilterAdjacentBodies")
            /\ IF geometry_source_is_registered
                 THEN /\ sg_between' = sg_between \cup
                           {AdjacentExclusion(FinalizeArg, j) : j \in FilteredJoints}
                      /\ sg_calls' = sg_calls + Cardinality(FilteredJoints)
                 ELSE UNCHANGED <<sg_between, sg_calls>>
            /\ UNCHANGED last
  /\ UNCHANGED <<finalizeFrame, topology_is_valid, scene_graph_, contactVars, declVars,
                 sg_within>>

\* ExcludeCollisionsWithVisualGeometry(scene_graph);
ExcludeCollisionsWithVisualGeometryStatement ==
  /\ AtStatement("ExcludeCollisionsWithVisualGeometry")
  /\ LET e == ExcludeCollisionsWithVisualGeometryError(FinalizeArg) IN
     IF e # Ok
       THEN Thrown(e) /\ UNCHANGED <<sg_between, sg_within, sg_calls>>
       ELSE /\ Done("ExcludeCollisionsWithVisualGeometry")
            /\ IF geometry_source_is_registered
                 THEN /\ sg_between' = sg_between \cup
                           {[engine |-> FinalizeArg, A |-> VisualSet, B |-> CollisionSet]}
                      /\ sg_within' = sg_within \cup
                           {[engine |-> FinalizeArg, set |-> VisualSet]}
                      /\ sg_calls' = sg_calls + 2
                 ELSE UNCHANGED <<sg_between, sg_within, sg_calls>>
            /\ UNCHANGED last
  /\ UNCHANGED <<finalizeFrame, topology_is_valid, scene_graph_, contactVars, declVars>>

\* DeclareStateAndPorts(), the declaration of the state.
DeclareStateStatement ==
  /\ AtStatement("DeclareState")
  /\ Done("DeclareState")
  /\ sys' = DeclareState(sys)
  /\ UNCHANGED <<finalizeFrame, topology_is_valid, scene_graph_, contactVars, ports,
                 pc_, vc_, sg_within, sg_between, sg_calls, last>>

\* DeclareStateAndPorts(), the declaration of the ports.
DeclarePortsStatement ==
  /\ AtStatement("DeclarePorts")
  /\ Done("DeclarePorts")
  /\ LET d == DeclareStateAndPorts(sys, ports) IN
     /\ sys' = [sys EXCEPT !.num_input_ports = d.sys.num_input_ports,
                           !.num_output_ports = d.sys.num_output_ports]
     /\ ports' = d.ports
  /\ UNCHANGED <<finalizeFrame, topology_is_valid, scene_graph_, contactVars, pc_, vc_,
                 sg_within, sg_between, sg_calls, last>>

\* if (source_id_) DeclareSceneGraphPorts();
DeclareSceneGraphPortsStatement ==
  /\ AtStatement("DeclareSceneGraphPorts")
  /\ Done("DeclareSceneGraphPorts")
  /\ LET d == IF source_id_ # Invalid
              THEN DeclareSceneGraphPorts([sys |-> sys, ports |-> ports])
              ELSE [sys |-> sys, ports |-> ports]
     IN  sys' = d.sys /\ ports' = d.ports
  /\ UNCHANGED <<finalizeFrame, topology_is_valid, scene_graph_, contactVars, pc_, vc_,
                 sg_within, sg_between, sg_calls, last>>

\* DeclareCacheEntries();
DeclareCacheEntriesStatement ==
  /\ AtStatement("DeclareCacheEntries")
  /\ Done("DeclareCacheEntries")
  /\ sys' = DeclareCacheEntries([sys |-> sys, ports |-> ports]).sys
  /\ pc_' = NewCache
  /\ vc_' = NewCache
  /\ UNCHANGED <<finalizeFrame, topology_is_valid, scene_graph_, contactVars, ports,
                 sg_within, sg_between, sg_calls, last>>

\* scene_graph_ = nullptr;
EraseEngineStatement ==
  /\ AtStatement("scene_graph_ = nullptr")
  /\ Done("scene_graph_ = nullptr")
  /\ scene_graph_' = Null
  /\ UNCHANGED <<finalizeFrame, topology_is_valid, contactVars, declVars,
                 sg_within, sg_between, sg_calls, last>>

\* if (num_collision_geometries() > 0 && time_scale < 0) set_penetration_allowance();
DefaultPenetrationAllowanceStatement ==
  /\ AtStatement("set_penetration_allowance")
  /\ Done("set_penetration_allowance")
  /\ penalty_method_contact_parameters_' =
       IF num_collision_geometries > 0 /\ penalty_method_contact_parameters_.allowance < 0
         THEN [allowance |-> DefaultPenetrationAllowance]
         ELSE penalty_method_contact_parameters_
  /\ UNCHANGED <<finalizeFrame, topology_is_valid, scene_graph_, stribeck_model_,
                 implicit_stribeck_solver_, declVars, sg_within, sg_between, sg_calls,
                 last>>

\* if (num_collision_geometries() > 0 && stiction_tolerance() < 0)
\*   set_stiction_tolerance();
DefaultStictionToleranceStatement ==
  /\ AtStatement("set_stiction_tolerance")
  /\ Done("set_stiction_tolerance")
  /\ stribeck_model_' =
       IF num_collision_geometries > 0 /\ stribeck_model_.stiction_tolerance < 0
         THEN [stiction_tolerance |-> DefaultStictionTolerance]
         ELSE stribeck_model_
  /\ UNCHANGED <<finalizeFrame, topology_is_valid, scene_graph_,
                 penalty_method_contact_parameters_, implicit_stribeck_solver_,
                 declVars, sg_within, sg_between, sg_calls, last>>

\* if (is_discrete()) { make the solver; give it the stiction tolerance }
MakeSolverStatement ==
  /\ AtStatement("implicit_stribeck_solver_")
  /\ Done("implicit_stribeck_solver_")
  /\ implicit_stribeck_solver_' =
       IF is_discrete
         THEN [made |-> implicit_stribeck_solver_.made + 1,
               nv |-> num_velocities,
               stiction_tolerance |-> stribeck_model_.stiction_tolerance,
               problem |-> NoProblem]
         ELSE implicit_stribeck_solver_
  /\ UNCHANGED <<finalizeFrame, topology_is_valid, scene_graph_,
                 penalty_method_contact_parameters_, stribeck_model_, declVars,
                 sg_within, sg_between, sg_calls, last>>

\* Finalize returns.
FinalizeReturn ==
  /\ AtStatement("return")
  /\ Done("return")
  /\ last' = Outcome("Finalize", Ok, Invalid, NoSet)
  /\ UNCHANGED <<finalizeFrame, topology_is_valid, scene_graph_, contactVars, declVars,
                 sg_within, sg_between, sg_calls>>

\* SpecFinalizeOrder: continuous and discrete plants, with and without a
\* source, a collision geometry and a user's stiction tolerance, finalized
\* with every engine argument; nothing else runs while Finalize does.
FinMaxBodies == 2       \* SpecFinalizeOrder: bodies in the tree, the world included
FinMaxGeometries == 1   \* SpecFinalizeOrder: geometries registered

FinBounds == num_bodies <= FinMaxBodies /\ num_geometries <= FinMaxGeometries

NextFinalizeOrder ==
  \/ ~InFinalize /\ AddRigidBody(1) /\ FinBounds'
  \/ ~InFinalize /\ RegisterAsSourceForSceneGraph(1)
  \/ \E b \in BodyArgs : ~InFinalize /\ RegisterCollisionGeometry(b, 1, 1) /\ FinBounds'
  \/ \E v \in StictionArgs : ~InFinalize /\ set_stiction_tolerance(v)
  \/ \E sg \in EngineArgs : FinalizeCall(sg)
  \/ TreeFinalizeStatement
  \/ FilterAdjacentBodiesStatement
  \/ ExcludeCollisionsWithVisualGeometryStatement
  \/ DeclareStateStatement
  \/ DeclarePortsStatement
  \/ DeclareSceneGraphPortsStatement
  \/ DeclareCacheEntriesStatement
  \/ EraseEngineStatement
  \/ DefaultPenetrationAllowanceStatement
  \/ DefaultStictionToleranceStatement
  \/ MakeSolverStatement
  \/ FinalizeReturn

SpecFinalizeOrder == Init /\ [][NextFinalizeOrder]_vars

StateDeclared == sys.continuous # <<>> \/ sys.discrete_groups # <<>>
PortsDeclared == ports.continuous_state_output_port_ # Invalid

\* C22: within one Finalize call every statement that changes the plant or
\* the engine finds the earlier ones done: the tree is finalized before
\* anything else; the collision filters are installed (only with a source)
\* before the state is declared and while the saved engine pointer is still
\* held; the state is declared before the ports, the ports before the caches
\* are created, the caches before the pointer is erased, the pointer is
\* erased before a default of the contact parameters is applied, and the
\* solver is made (only for a discrete plant) after the defaults, with the
\* stiction tolerance the Stribeck model then holds, which with collision
\* geometry is the default or the user's value, never the unset one.
C22_FinalizeOrder ==
  [][InFinalize =>
       /\ (sg_within' # sg_within \/ sg_between' # sg_between) =>
            /\ topology_is_valid
            /\ geometry_source_is_registered
            /\ scene_graph_ # Null /\ scene_graph_' # Null
            /\ ~StateDeclared
       /\ (~geometry_source_is_registered) => UNCHANGED <<sg_within, sg_between>>
       /\ (StateDeclared' /\ ~StateDeclared) =>
            topology_is_valid /\ ~PortsDeclared
       /\ (PortsDeclared' /\ ~PortsDeclared) => StateDeclared /\ ~pc_.allocated
       /\ (pc_'.allocated /\ ~pc_.allocated) =>
            /\ PortsDeclared
            /\ geometry_source_is_registered => ports.geometry_pose_port_ # Invalid
            /\ scene_graph_ = IF geometry_source_is_registered THEN FinalizeArg ELSE Null
       /\ (scene_graph_' # scene_graph_) =>
            /\ scene_graph_' = Null
            /\ pc_.allocated
            /\ penalty_method_contact_parameters_.allowance = Invalid
       /\ (penalty_method_contact_parameters_' # penalty_method_contact_parameters_
             \/ stribeck_model_' # stribeck_model_) =>
            scene_graph_ = Null /\ pc_.allocated /\ implicit_stribeck_solver_.made = 0
       /\ (implicit_stribeck_solver_' # implicit_stribeck_solver_) =>
            /\ is_discrete
            /\ num_collision_geometries > 0 =>
                 /\ penalty_method_contact_parameters_.allowance > 0
                 /\ stribeck_model_.stiction_tolerance > 0
            /\ implicit_stribeck_solver_'.stiction_tolerance =
                 stribeck_model_.stiction_tolerance
       /\ (~is_discrete) => UNCHANGED implicit_stribeck_solver_
       /\ (last'.op = "Finalize" /\ last'.err = "ok" /\ last' # last) =>
            /\ topology_is_valid /\ StateDeclared /\ PortsDeclared /\ pc_.allocated
            /\ scene_graph_ = Null
            /\ is_discrete => implicit_stribeck_solver_.made = 1]_vars

C22_Witness ==
  /\ calc.routine = "Finalize"
  /\ calc.value = FinalizeOrder
  /\ last.op = "Finalize" /\ last.err = "ok"
  /\ sg_within # {}
  /\ num_collision_geometries > 0
  /\ implicit_stribeck_solver_.made = 1
  /\ implicit_stribeck_solver_.stiction_tolerance = DefaultStictionTolerance

\* ------------------------------------------------ contact results, entry by entry
\* ContactResults::Clear() and ContactResults::AddContactInfo(info).
Clear == <<>>
AddContactInfo(contact_results, info) == Append(contact_results, info)

\* Lines 610-636: the entry made for one point pair.
ContactInfoOfPair(pair, geometry_id_to_body_index) ==
  [bodyA_index |-> geometry_id_to_body_index[pair.id_A],
   bodyB_index |-> geometry_id_to_body_index[pair.id_B],
   point_pair |-> pair]

RECURSIVE AddContactInfos(_, _, _)
AddContactInfos(contact_results, point_pairs, geometry_id_to_body_index) ==
  IF Len(point_pairs) = 0 THEN contact_results
  ELSE AddContactInfos(
         AddContactInfo(contact_results,
                        ContactInfoOfPair(Head(point_pairs), geometry_id_to_body_index)),
         Tail(point_pairs), geometry_id_to_body_index)

\* Mutant: the results of the earlier step are not cleared.
CalcContactResultsEntries_NoClear(a) ==
  IF a.num_collision_geometries = 0 THEN a.contact_results
  ELSE AddContactInfos(a.contact_results, a.point_pairs, a.geometry_id_to_body_index_)

\* CalcContactResults(context, point_pairs, R_WC_set, contact_results), as
\* DoCalcDiscreteVariableUpdates calls it on contact_results_ with the point
\* pairs of the step: the results after the call.
CalcContactResultsEntries(a) ==
  IF a.num_collision_geometries = 0 THEN a.contact_results
  ELSE AddContactInfos(Clear, a.point_pairs, a.geometry_id_to_body_index_)

\* SpecContactResults: three collision geometries owned by any of three
\* bodies, the point pairs of a step between any two of them, and the results
\* an earlier step left; or no collision geometry, no pairs and no results.
ResMaxContacts == 2   \* SpecContactResults: point pairs in one step
ResultGeometries == 1 .. 3
ResultPairs ==
  {pp \in [id_A : ResultGeometries, id_B : ResultGeometries, depth : {1}] :
     pp.id_A # pp.id_B}
RECURSIVE ResultPairLists(_)
ResultPairLists(n) ==
  IF n = 0 THEN {<<>>}
  ELSE ResultPairLists(n - 1) \cup
       {Append(l, pp) : l \in {m \in ResultPairLists(n - 1) : Len(m) = n - 1},
                        pp \in ResultPairs}
StaleResults ==
  <<[bodyA_index |-> 0, bodyB_index |-> 0,
     point_pair |-> [id_A |-> 3, id_B |-> 3, depth |-> 2]]>>
ContactResultsArgs ==
  [num_collision_geometries : {3}, point_pairs : ResultPairLists(ResMaxContacts),
   geometry_id_to_body_index_ : [ResultGeometries -> 0 .. 2],
   contact_results : {<<>>, StaleResults}]
  \cup
  [num_collision_geometries : {0}, point_pairs : {<<>>},
   geometry_id_to_body_index_ : {<<>>}, contact_results : {<<>>}]

InitContactResults ==
  /\ PlantInit
  /\ time_step_ = 1
  /\ calc \in [routine : {"CalcContactResults"}, args : ContactResultsArgs,
               value : {<<>>}]

CallCalcContactResults ==
  /\ calc.routine = "CalcContactResults"
  /\ calc' = [calc EXCEPT !.value = <<CalcContactResultsEntries(calc.args)>>]
  /\ UNCHANGED <<treeVars, time_step_, contact_results_, sourceVars, registryVars,
                 contactVars, declVars, sgVars, last, issued>>

SpecContactResults == InitContactResults /\ [][CallCalcContactResults]_vars

ContactResultsReturned == calc.routine = "CalcContactResults" /\ calc.value # <<>>

\* C23: after the step of a plant with collision geometry the stored contact
\* results hold exactly one entry per point pair of the step, in the order of
\* the point pairs, each naming the bodies that own id_A and id_B of its pair
\* and carrying the pair; nothing of an earlier step is left, so a step with
\* no point pair leaves the results empty.
C23_ContactResultsPerPair ==
  (ContactResultsReturned /\ calc.args.num_collision_geometries > 0) =>
    LET results == calc.value[1]
        pairs == calc.args.point_pairs
        owner == calc.args.geometry_id_to_body_index_
    IN  /\ Len(results) = Len(pairs)
        /\ \A i \in 1 .. Len(pairs) :
             /\ results[i].point_pair = pairs[i]
             /\ results[i].bodyA_index = owner[pairs[i].id_A]
             /\ results[i].bodyB_index = owner[pairs[i].id_B]
        /\ pairs = <<>> => results = <<>>

C23_Witness ==
  /\ ContactResultsReturned
  /\ calc.args.contact_results = StaleResults
  /\ Len(calc.args.point_pairs) = 2
  /\ calc.args.point_pairs[1] # calc.args.point_pairs[2]
  /\ Len(calc.value[1]) = 2
  /\ calc.value[1][1].bodyA_index = 2
  /\ calc.value[1][1].bodyB_index = 0
  /\ calc.value[1][2].point_pair = [id_A |-> 3, id_B |-> 1, depth |-> 1]

\* ------------------------------------------------ the penalty method's gate
\* The quantities of the only point pair of a call.
OnlyPair == calc.args.point_pairs[1]
NormalForce ==
  calc.args.parameters.stiffness * OnlyPair.depth *
    (1 + calc.args.parameters.damping * Dot3(OnlyPair.v_AcBc_W, OnlyPair.nhat_BA_W))
TangentialSpeedSquared ==
  SquaredNorm(Sub3(OnlyPair.v_AcBc_W,
                   Scale3(Dot3(OnlyPair.v_AcBc_W, OnlyPair.nhat_BA_W),
                          OnlyPair.nhat_BA_W)))

\* C24: for a point pair with depth x >= 0, if k x (1 + d vn) <= 0 nothing
\* is added to the slot of A or of B; otherwise the force on A, added to A's
\* slot when A is not the world and with the opposite sign to B's slot when B
\* is not the world, has the strictly positive component k x (1 + d vn) along
\* the normal, and no tangential part when the squared tangential speed is at
\* most the threshold 1e-28.
C24_PenaltyGate ==
  (PenaltyReturned /\ Len(calc.args.point_pairs) = 1) =>
    LET A == OnlyPair.bodyA_index
        B == OnlyPair.bodyB_index
        n == OnlyPair.nhat_BA_W
    IN  IF NormalForce <= 0
          THEN Added(A) = ZeroForce /\ Added(B) = ZeroForce
          ELSE /\ A # world_index =>
                    /\ Dot3(Added(A).f, n) = NormalForce
                    /\ TangentialSpeedSquared <= kNonZeroSqd =>
                         Added(A).f = Scale3(NormalForce, n)
               /\ B # world_index =>
                    /\ Dot3(Added(B).f, n) = 0 - NormalForce
                    /\ TangentialSpeedSquared <= kNonZeroSqd =>
                         Added(B).f = Scale3(0 - NormalForce, n)

C24_Witness ==
  /\ PenaltyReturned
  /\ Len(calc.args.point_pairs) = 1
  /\ OnlyPair.bodyA_index = 1
  /\ OnlyPair.mu_stribeck = 1
  /\ TangentialSpeedSquared = 1
  /\ NormalForce = 1
  /\ Added(1).f = OnlyPair.nhat_BA_W

C24_WitnessClosed ==
  /\ PenaltyReturned
  /\ Len(calc.args.point_pairs) = 1
  /\ OnlyPair.depth = 1
  /\ NormalForce < 0
  /\ calc.value[1] = LoadedArray

\* ------------------------------------------------ a Finalize that fails
\* C25: a Finalize call that fails with MissingSceneGraph or
\* SceneGraphMismatch leaves the plant as it was before the call, so not
\* reporting itself finalized.
C25_FailedFinalizeKeepsPreFinalize ==
  [][\A sg \in EngineArgs :
       (Finalize(sg) /\ last'.err \in {"MissingSceneGraph", "SceneGraphMismatch"}) =>
         /\ UNCHANGED <<treeVars, sourceVars, registryVars, contactVars, declVars>>
         /\ ~is_finalized']_vars

\* ------------------------------------------------ actuation input
\* EvalEigenVectorInput(context, instance_actuation_ports_[model_instance]):
\* the vector on the instance's port, each element named by where it comes from.
ActuationPortValue(model_instance) ==
  [k \in 1 .. num_actuated_dofs_of(model_instance) |->
     [instance |-> model_instance, element |-> k]]

\* AssembleActuationInput(context): the port vectors of the instances that
\* have actuated dofs, one after the other in ascending instance index.
RECURSIVE AssembleFrom(_)
AssembleFrom(model_instance_index) ==
  IF model_instance_index >= num_model_instances THEN <<>>
  ELSE (IF num_actuated_dofs_of(model_instance_index) = 0 THEN <<>>
        ELSE ActuationPortValue(model_instance_index))
       \o AssembleFrom(model_instance_index + 1)
AssembleActuationInput == AssembleFrom(0)

\* AddJointActuationForces(context, forces): what AddInOneForce is given for
\* each actuator, u[actuator_index]; actuators are numbered from 1 here.
AddJointActuationForces ==
  [actuator \in 1 .. num_actuators |-> AssembleActuationInput[actuator]]

\* C26: the scalar applied to an actuator is an element of the actuation
\* input port of the model instance the actuator belongs to.
C26_ActuationFromOwnInstance ==
  topology_is_valid =>
    \A actuator \in 1 .. num_actuators :
      AddJointActuationForces[actuator].instance = JointInstance(actuators[actuator])

\* C27: a Finalize that succeeds on a discrete plant gives the implicit
\* Stribeck solver a strictly positive stiction tolerance.
C27_SolverStictionPositive ==
  [][\A sg \in EngineArgs :
       (Finalize(sg) /\ last'.err = "ok" /\ is_discrete) =>
         implicit_stribeck_solver_'.stiction_tolerance > 0]_vars

\* C28: the contact results and the generalized contact forces that the
\* outputs give on a context are those of a discrete update made on that same
\* context, whatever updates were made on other contexts of the plant.
C28_OutputsOfOwnContext ==
  [][\A context \in Contexts :
       /\ (/\ CalcContactResultsOutput(context)
           /\ last'.err = "ok"
           /\ contact_results_.x # Invalid) => last'.ret = context.x
       /\ (/\ CopyGeneralizedContactForcesOut(1, context)
           /\ last'.err = "ok"
           /\ implicit_stribeck_solver_.problem.x # Invalid) =>
            last'.ret = context.x]_vars

====
